---- MODULE Spec2Model ----
(***************************************************************************)
(* Tool-invocation pipeline of the Zenskar MCP server.                     *)
(*                                                                         *)
(* Two variants of the pipeline live in the repository:                    *)
(*   "full"   the server with environment fallback, approval gate, limit   *)
(*            enforcement and usage telemetry (src/INSTALL.md:116-1014);   *)
(*   "simple" the server that takes organization and authorization as      *)
(*            plain tool arguments (src/src/server.js).                    *)
(* A deployment runs one of them; `variant` is fixed by Init.              *)
(*                                                                         *)
(* JavaScript strings whose characters the code inspects are sequences of  *)
(* one-character strings; property names are TLA+ strings.  Tool argument  *)
(* values are tagged records [t |-> type, v |-> value].  The handler is    *)
(* modelled for any argument object it can be called with: the key         *)
(* stripping of the transport's own schema parsing is not modelled.        *)
(***************************************************************************)
EXTENDS Integers, Sequences, FiniteSets, TLC

VARIABLES
    variant,      \* "full" | "simple": which server is deployed
    env,          \* process.env: ZENSKAR_ORGANIZATION, ZENSKAR_AUTH_TOKEN
    limitsLoaded, \* whether mcp-limits could be required at startup
    pc,           \* position of the handler: idle, fetching, logging, done
    cur,          \* the invocation being handled
    req,          \* the outbound HTTP request of this invocation, or NoReq
    httpCalls,    \* fetch() calls issued by this invocation
    usage,        \* usage records handed to tokenUsageMonitor.logUsage
    result,       \* what the handler returned to the caller, or NoResult
    invocations,  \* invocations started so far
    gateStats,    \* counts over invocations of approval-flagged tools
    peer          \* a second invocation in flight, parked at one of its awaits

vars == <<variant, env, limitsLoaded, pc, cur, req, httpCalls, usage, result,
          invocations, gateStats, peer>>

-----------------------------------------------------------------------------
(* Bounds of the model *)

MaxInvocations == 2

-----------------------------------------------------------------------------
(* JavaScript values *)

Undefined == [t |-> "undefined"]
Null == [t |-> "null"]
Num(n) == [t |-> "number", v |-> n]
Str(s) == [t |-> "string", v |-> s]
Bool(b) == [t |-> "boolean", v |-> b]
Arr(s) == [t |-> "array", v |-> s]
Obj(f) == [t |-> "object", v |-> f]

\* obj[key] of a JavaScript object held as a function: undefined when absent
Get(obj, key) == IF key \in DOMAIN obj THEN obj[key] ELSE Undefined

\* the object without one key (delete obj[key])
Without(obj, key) == [k \in DOMAIN obj \ {key} |-> obj[k]]

\* truthiness of a tagged value
Truthy(x) ==
    CASE x.t = "undefined" -> FALSE
      [] x.t = "null" -> FALSE
      [] x.t = "number" -> x.v # 0
      [] x.t = "string" -> x.v # <<>>
      [] x.t = "boolean" -> x.v
      [] OTHER -> TRUE

\* an optional string field of the context: <<>> stands for absent or ''
Field(obj, key) == IF key \in DOMAIN obj THEN obj[key] ELSE <<>>

StartsWith(s, p) == Len(s) >= Len(p) /\ SubSeq(s, 1, Len(p)) = p

BearerPrefix == <<"B", "e", "a", "r", "e", "r", " ">>

\* a header map is an insertion-ordered list of <<key, value>> pairs
HeaderGet(hs, key) ==
    IF \E i \in 1..Len(hs) : hs[i][1] = key
    THEN hs[CHOOSE i \in 1..Len(hs) : hs[i][1] = key][2]
    ELSE <<>>

HeaderKeys(hs) == {hs[i][1] : i \in 1..Len(hs)}

\* headers[key] = value on a header list: overwrite in place, or append
HeaderSet(hs, key, value) ==
    IF \E i \in 1..Len(hs) : hs[i][1] = key
    THEN [i \in 1..Len(hs) |-> IF hs[i][1] = key THEN <<key, value>> ELSE hs[i]]
    ELSE Append(hs, <<key, value>>)

\* String.prototype.toLowerCase on the header names in use
LowerKey(key) ==
    CASE key = "Authorization" -> "authorization"
      [] key = "Content-Type" -> "content-type"
      [] key = "Organisation" -> "organisation"
      [] key = "X-Api-Key" -> "x-api-key"
      [] key = "X-Trace" -> "x-trace"
      [] OTHER -> key

-----------------------------------------------------------------------------
(* The tool catalog (mcp-config.json): read-only, loaded once *)

S(text) == [kind |-> "lit", text |-> text]
P(name) == [kind |-> "param", text |-> name]

ArgDesc(name, type, position, required, default) ==
    [name |-> name, type |-> type, position |-> position,
     required |-> required, default |-> default]

ApiVersionOverride == <<"2", "0", "2", "4">>

ListCustomers ==
    [name |-> "listCustomers", method |-> "GET", url |-> <<S("/customers")>>,
     args |-> <<ArgDesc("limit", "number", "query", FALSE, Undefined),
                ArgDesc("status", "string", "query", FALSE, Undefined)>>,
     headers |-> <<>>, needsApproval |-> "never"]

GetCustomer ==
    [name |-> "getCustomer", method |-> "GET",
     url |-> <<S("/customers/"), P("customer_id")>>,
     args |-> <<ArgDesc("customer_id", "string", "path", TRUE, Undefined),
                ArgDesc("expand", "boolean", "query", FALSE, Undefined)>>,
     headers |-> <<<<"apiversion", ApiVersionOverride>>>>,
     needsApproval |-> "never"]

ListInvoices ==
    [name |-> "listInvoices", method |-> "GET", url |-> <<S("/invoices")>>,
     args |-> <<ArgDesc("limit", "number", "query", TRUE, Num(20)),
                ArgDesc("status", "string", "query", FALSE, Str(<<"d", "u", "e">>))>>,
     headers |-> <<>>, needsApproval |-> "never"]

CreateInvoice ==
    [name |-> "createInvoice", method |-> "POST", url |-> <<S("/invoices")>>,
     args |-> <<ArgDesc("customer_id", "string", "body", TRUE, Undefined),
                ArgDesc("limit", "number", "query", FALSE, Undefined)>>,
     headers |-> <<>>, needsApproval |-> "always"]

CreatePayment ==
    [name |-> "createPayment", method |-> "POST",
     url |-> <<S("/customers/"), P("customer_id"), S("/payments")>>,
     args |-> <<ArgDesc("customer_id", "string", "path", TRUE, Undefined),
                ArgDesc("amount", "number", "body", TRUE, Undefined)>>,
     headers |-> <<>>, needsApproval |-> "conditional"]

GetCurrentDateTime ==
    [name |-> "getCurrentDateTime", method |-> "GET", url |-> <<S("/")>>,
     args |-> <<>>, headers |-> <<>>, needsApproval |-> "never"]

IngestRawMetricEvent ==
    [name |-> "ingestRawMetricEvent", method |-> "POST",
     url |-> <<S("/usage/events")>>,
     args |-> <<ArgDesc("event", "object", "body", TRUE, Undefined)>>,
     headers |-> <<>>, needsApproval |-> "never"]

CreateRawMetric ==
    [name |-> "createRawMetric", method |-> "POST",
     url |-> <<S("/usage/raw_metrics")>>,
     args |-> <<ArgDesc("name", "string", "body", TRUE, Undefined),
                ArgDesc("connector", "string", "body", FALSE, Undefined),
                ArgDesc("dataschema", "object", "body", FALSE, Undefined),
                ArgDesc("column_order", "array", "body", FALSE, Undefined)>>,
     headers |-> <<>>, needsApproval |-> "never"]

ExtractContractFromRaw ==
    [name |-> "extractContractFromRaw", method |-> "POST",
     url |-> <<S("/contracts/extract")>>,
     args |-> <<ArgDesc("raw_text", "string", "body", TRUE, Undefined),
                ArgDesc("organization_id", "string", "body", FALSE, Undefined)>>,
     headers |-> <<>>, needsApproval |-> "never"]

\* the tools whose request body the builder rewrites
TransformTools == {IngestRawMetricEvent, CreateRawMetric, ExtractContractFromRaw}

Catalog ==
    {ListCustomers, GetCustomer, ListInvoices, CreateInvoice, CreatePayment,
     GetCurrentDateTime}

\* the predicate form of needsApproval, evaluated on the current arguments
ApprovalThreshold == 1000

NeedsApprovalPredicate(tool, args) ==
    /\ tool.needsApproval = "conditional"
    /\ Get(args, "amount").t = "number"
    /\ Get(args, "amount").v > ApprovalThreshold

ArgNames(tool) == {tool.args[i].name : i \in 1..Len(tool.args)}

\* tool.args.some(arg => arg.position === position && arg.name === key)
HasArgAt(tool, position, key) ==
    \E i \in 1..Len(tool.args) :
        tool.args[i].position = position /\ tool.args[i].name = key

-----------------------------------------------------------------------------
(* Schema Compiler: what the compiled validator does with a call *)

ContextKey == "__userContext"

TypeMatches(type, x) ==
    CASE type \in {"integer", "number"} -> x.t = "number"
      [] type = "boolean" -> x.t = "boolean"
      [] type = "object" -> x.t = "object"
      [] type = "array" -> x.t = "array"
      [] OTHER -> x.t = "string"

\* a compiled type that treats every argument as optional
ParseArgAllOptional(desc, x) ==
    IF x.t = "undefined" THEN [ok |-> TRUE, v |-> Undefined]
    ELSE [ok |-> TypeMatches(desc.type, x), v |-> x]

\* one argument through its compiled type: .default() is applied before
\* .optional(), so an optional argument left out stays undefined and a
\* required one with a declared default is filled in
ParseArg(desc, x) ==
    IF x.t = "undefined"
    THEN IF ~desc.required THEN [ok |-> TRUE, v |-> Undefined]
         ELSE IF desc.default.t # "undefined" THEN [ok |-> TRUE, v |-> desc.default]
         ELSE [ok |-> FALSE, v |-> Undefined]
    ELSE [ok |-> TypeMatches(desc.type, x), v |-> x]

\* the simple server's compiled type: no defaults
ParseArgSimple(desc, x) ==
    IF x.t = "undefined"
    THEN [ok |-> ~desc.required, v |-> Undefined]
    ELSE [ok |-> TypeMatches(desc.type, x), v |-> x]

Parsed(tool, args, i) ==
    IF variant = "full"
    THEN ParseArg(tool.args[i], Get(args, tool.args[i].name))
    ELSE ParseArgSimple(tool.args[i], Get(args, tool.args[i].name))

\* organization and authorization are required strings of the simple schema;
\* __userContext is an optional object of the full one
EnvelopeOk(args) ==
    IF variant = "full"
    THEN Get(args, ContextKey).t \in {"undefined", "object"}
    ELSE /\ Get(args, "organization").t = "string"
         /\ Get(args, "authorization").t = "string"

Validate(tool, args) ==
    LET ok == /\ EnvelopeOk(args)
              /\ \A i \in 1..Len(tool.args) : Parsed(tool, args, i).ok
        filled == {i \in 1..Len(tool.args) :
                     Parsed(tool, args, i).v.t # "undefined"}
        keys == DOMAIN args \cup {tool.args[i].name : i \in filled}
        valueOf(k) ==
            IF \E i \in filled : tool.args[i].name = k
            THEN Parsed(tool, args,
                        CHOOSE i \in filled : tool.args[i].name = k).v
            ELSE args[k]
    IN  [ok |-> ok, args |-> IF ok THEN [k \in keys |-> valueOf(k)] ELSE args]

-----------------------------------------------------------------------------
(* Credential Resolver and outbound headers *)

EmptyObj == [k \in {} |-> Undefined]

\* args.__userContext as an object; EmptyObj when the call carries none
ContextOf(args) ==
    IF Get(args, ContextKey).t = "object" THEN args[ContextKey].v ELSE EmptyObj

\* a || b on strings
OrElse(a, b) == IF a # <<>> THEN a ELSE b

AppJson ==
    <<"a", "p", "p", "l", "i", "c", "a", "t", "i", "o", "n", "/", "j", "s", "o", "n">>
UserAgent == <<"Z", "e", "n", "s", "k", "a", "r", "-", "M", "C", "P">>
ApiVersion == <<"2", "0", "2", "3", "0", "5", "0", "1">>

\* a resolver that lets the environment win over the call's context
ResolveOrgIdEnvFirst(ctx, e) == OrElse(e.org, Field(ctx, "organization"))

\* userContext?.organization || process.env.ZENSKAR_ORGANIZATION
ResolveOrgId(ctx, e) == OrElse(Field(ctx, "organization"), e.org)

\* userContext?.authorization || headers['authorization'] ||
\* headers['Authorization'] || `Bearer ${process.env.ZENSKAR_AUTH_TOKEN}`
ResolveAuthToken(ctx, e) ==
    OrElse(Field(ctx, "authorization"),
      OrElse(HeaderGet(Field(ctx, "headers"), "authorization"),
        OrElse(HeaderGet(Field(ctx, "headers"), "Authorization"),
               IF e.token # <<>> THEN BearerPrefix \o e.token ELSE <<>>)))

\* the Authorization header value for a resolved credential
WithBearer(token) ==
    IF StartsWith(token, BearerPrefix) THEN token ELSE BearerPrefix \o token

\* the legacy x-api-key header, when one was supplied
WithApiKey(headers, ctx) ==
    IF Field(ctx, "apiKey") # <<>>
    THEN HeaderSet(headers, "x-api-key", ctx.apiKey)
    ELSE IF HeaderGet(Field(ctx, "headers"), "x-api-key") # <<>>
         THEN HeaderSet(headers, "x-api-key",
                        HeaderGet(ctx.headers, "x-api-key"))
         ELSE headers

\* the caller's extra headers, each added unless headers[key.toLowerCase()]
\* is already set
RECURSIVE WithExtraHeaders(_, _, _)
WithExtraHeaders(headers, extra, i) ==
    IF i > Len(extra) THEN headers
    ELSE LET key == extra[i][1]
             val == extra[i][2]
         IN  WithExtraHeaders(
                 IF val # <<>> /\ HeaderGet(headers, LowerKey(key)) = <<>>
                 THEN HeaderSet(headers, key, val)
                 ELSE headers,
                 extra, i + 1)

\* static headers of the request template, written last
RECURSIVE WithTemplateHeaders(_, _, _)
WithTemplateHeaders(headers, template, i) ==
    IF i > Len(template) THEN headers
    ELSE WithTemplateHeaders(
             HeaderSet(headers, template[i][1], template[i][2]),
             template, i + 1)

\* the headers of executeAPICall, for a call whose identity resolved
BuildHeaders(tool, ctx, e) ==
    LET base == <<<<"Content-Type", AppJson>>, <<"User-Agent", UserAgent>>,
                  <<"apiversion", ApiVersion>>>>
        withOrg == HeaderSet(base, "organisation", ResolveOrgId(ctx, e))
        withAuth == HeaderSet(withOrg, "Authorization",
                              WithBearer(ResolveAuthToken(ctx, e)))
        withKey == WithApiKey(withAuth, ctx)
        withExtra == WithExtraHeaders(withKey, Field(ctx, "headers"), 1)
    IN  WithTemplateHeaders(withExtra, tool.headers, 1)

\* the headers of the simple server's executeTool
BuildHeadersSimple(organization, authorization) ==
    <<<<"Content-Type", AppJson>>, <<"Accept", AppJson>>,
      <<"organisation", organization>>,
      <<"Authorization", WithBearer(authorization)>>>>

-----------------------------------------------------------------------------
(* Request Builder *)

\* String(value) as URLSearchParams.append applies it
Stringify(x) == IF x.t = "string" THEN x ELSE [t |-> "text", v |-> x]

\* url.replace(`{name}`, value): the first placeholder of that name
ReplaceParam(url, name, value) ==
    IF \E i \in 1..Len(url) : url[i] = P(name)
    THEN LET first == CHOOSE i \in 1..Len(url) :
                          /\ url[i] = P(name)
                          /\ \A j \in 1..(i - 1) : url[j] # P(name)
         IN  [i \in 1..Len(url) |-> IF i = first THEN value ELSE url[i]]
    ELSE url

\* the path parameters, in the order of tool.args
RECURSIVE BuildPath(_, _, _, _)
BuildPath(tool, cleanArgs, url, i) ==
    IF i > Len(tool.args) THEN url
    ELSE LET arg == tool.args[i]
             x == Get(cleanArgs, arg.name)
         IN  BuildPath(tool, cleanArgs,
                 IF arg.position = "path" /\ x.t # "undefined"
                 THEN ReplaceParam(url, arg.name,
                                   [kind |-> "encoded", of |-> arg.name,
                                    value |-> Stringify(x)])
                 ELSE url,
                 i + 1)

\* defined, non-null and not the empty string
Sendable(x) == x.t \notin {"undefined", "null"} /\ x # Str(<<>>)

\* the entries one value appends under its key
QueryEntries(x) ==
    IF x.t = "array" THEN [i \in 1..Len(x.v) |-> Stringify(x.v[i])]
    ELSE <<Stringify(x)>>

\* keys appended because their argument is declared with position query
NamedQueryKeys(tool, cleanArgs) ==
    {k \in ArgNames(tool) :
        HasArgAt(tool, "query", k) /\ Sendable(Get(cleanArgs, k))}

\* keys appended by the fallback for arguments not consumed otherwise
FallbackQueryKeysNoPathCheck(tool, cleanArgs, named) ==
    {k \in DOMAIN cleanArgs :
        /\ k \notin named
        /\ Sendable(cleanArgs[k])
        /\ ~HasArgAt(tool, "body", k)}

FallbackQueryKeys(tool, cleanArgs, named) ==
    {k \in DOMAIN cleanArgs :
        /\ k \notin named
        /\ Sendable(cleanArgs[k])
        /\ ~HasArgAt(tool, "path", k)
        /\ ~HasArgAt(tool, "body", k)}

\* the query string as key -> appended values; keys with no entry (an empty
\* array) are not part of it
BuildQuery(tool, cleanArgs) ==
    LET named == {k \in NamedQueryKeys(tool, cleanArgs) :
                     QueryEntries(cleanArgs[k]) # <<>>}
        extra == {k \in FallbackQueryKeys(tool, cleanArgs, named) :
                     QueryEntries(cleanArgs[k]) # <<>>}
    IN  [k \in named \cup extra |-> QueryEntries(cleanArgs[k])]

NoBody == [present |-> FALSE, params |-> EmptyObj]

\* obj[key] = value
Put(obj, key, value) ==
    [k \in DOMAIN obj \cup {key} |-> IF k = key THEN value ELSE obj[k]]

\* String.prototype.replace(ch, by) with a string pattern: the first match
ReplaceFirst(s, ch, by) ==
    IF \E i \in 1..Len(s) : s[i] = ch
    THEN LET first == CHOOSE i \in 1..Len(s) :
                          s[i] = ch /\ \A j \in 1..(i - 1) : s[j] # ch
         IN  [i \in 1..Len(s) |-> IF i = first THEN by ELSE s[i]]
    ELSE s

\* .replace(/Z$/i, '')
StripTrailingZ(s) ==
    IF Len(s) > 0 /\ s[Len(s)] \in {"Z", "z"} THEN SubSeq(s, 1, Len(s) - 1)
    ELSE s

\* String.prototype.trim
RECURSIVE Trim(_)
Trim(s) ==
    IF s = <<>> THEN s
    ELSE IF Head(s) = " " THEN Trim(Tail(s))
    ELSE IF s[Len(s)] = " " THEN Trim(SubSeq(s, 1, Len(s) - 1))
    ELSE s

\* a formatter that replaces the separator and keeps the trailing Z
FormatClickHouseDateTimeKeepZone(value) ==
    IF value.t # "string" THEN value
    ELSE Str(Trim(ReplaceFirst(ReplaceFirst(value.v, "T", " "), "t", " ")))

\* formatClickHouseDateTime
FormatClickHouseDateTime(value) ==
    IF value.t # "string" THEN value
    ELSE Str(Trim(StripTrailingZ(
                 ReplaceFirst(ReplaceFirst(value.v, "T", " "), "t", " "))))

DateTimeKeys == {"DateTime64", "DateTime", "DateTime32"}

\* normalizeUsageEventPayload: a copy of the event with its timestamps
\* reformatted
NormalizeUsageEventPayload(eventPayload) ==
    IF ~Truthy(eventPayload) \/ eventPayload.t # "object" THEN eventPayload
    ELSE LET e == eventPayload.v
             data(d) == Obj([k \in DOMAIN d |->
                               IF k \in DateTimeKeys
                               THEN FormatClickHouseDateTime(d[k])
                               ELSE d[k]])
         IN  Obj([k \in DOMAIN e |->
                    IF k = "timestamp" THEN FormatClickHouseDateTime(e[k])
                    ELSE IF k = "data" /\ Truthy(e[k]) /\ e[k].t = "object"
                    THEN data(e[k].v)
                    ELSE e[k]])

\* a builder that nests the normalized event under its argument's name
WithBodyArgNested(bodyParams, toolName, name, x) ==
    IF toolName = "ingestRawMetricEvent" /\ name = "event"
    THEN Put(bodyParams, name, NormalizeUsageEventPayload(x))
    ELSE Put(bodyParams, name, x)

\* what one body-position argument adds to bodyParams: itself under its name,
\* or, for the event of ingestRawMetricEvent, the fields of the normalized
\* event
WithBodyArg(bodyParams, toolName, name, x) ==
    IF toolName = "ingestRawMetricEvent" /\ name = "event"
    THEN LET payload == NormalizeUsageEventPayload(x)
         IN  IF Truthy(payload) /\ payload.t = "object"
             THEN [k \in DOMAIN bodyParams \cup
                         {f \in DOMAIN payload.v : payload.v[f].t # "undefined"}
                     |-> IF k \in DOMAIN payload.v /\ payload.v[k].t # "undefined"
                         THEN payload.v[k] ELSE bodyParams[k]]
             ELSE Put(bodyParams, name, payload)
    ELSE Put(bodyParams, name, x)

\* the body-position arguments that are defined, in the order of tool.args
RECURSIVE BodyParams(_, _, _, _)
BodyParams(tool, cleanArgs, i, bodyParams) ==
    IF i > Len(tool.args) THEN bodyParams
    ELSE LET arg == tool.args[i]
             x == Get(cleanArgs, arg.name)
         IN  BodyParams(tool, cleanArgs, i + 1,
                 IF arg.position = "body" /\ x.t # "undefined"
                 THEN WithBodyArg(bodyParams, tool.name, arg.name, x)
                 ELSE bodyParams)

\* a string the code only compares whole (type names, enum values) is held as
\* one element
Word(w) == <<w>>

\* trim() on the type names in use
TrimWord(w) ==
    CASE w = Word(" int64 ") -> Word("int64")
      [] w = Word("  ") -> <<>>
      [] OTHER -> w

\* toLowerCase() on the type names in use
LowerWord(w) ==
    CASE w = Word("Boolean") -> Word("boolean")
      [] w = Word("String") -> Word("string")
      [] w = Word("Int64") -> Word("int64")
      [] w = Word("Float64") -> Word("float64")
      [] w = Word("Date32") -> Word("date32")
      [] w = Word("DateTime") -> Word("datetime")
      [] w = Word("DateTime64") -> Word("datetime64")
      [] w = Word("UUID") -> Word("uuid")
      [] w = Word("Bool") -> Word("bool")
      [] OTHER -> w

\* normalizeClickHouseType
NormalizeClickHouseType(type) ==
    IF type.t # "string" THEN type
    ELSE LET trimmed == TrimWord(type.v)
             lower == LowerWord(trimmed)
         IN  IF trimmed = <<>> THEN type
             ELSE Str(CASE lower = Word("boolean") -> Word("Bool")
                        [] lower = Word("string") -> Word("String")
                        [] lower \in {Word("int"), Word("int64")} -> Word("Int64")
                        [] lower \in {Word("float"), Word("float64"),
                                      Word("double")} -> Word("Float64")
                        [] lower \in {Word("date"), Word("date32")} -> Word("Date32")
                        [] lower \in {Word("datetime"), Word("datetime64")} ->
                               Word("DateTime64")
                        [] lower = Word("uuid") -> Word("UUID")
                        [] OTHER -> trimmed)

\* normalizeRawMetricDataschema
NormalizeRawMetricDataschema(schema) ==
    IF ~Truthy(schema) \/ schema.t # "object" THEN schema
    ELSE LET n == schema.v
         IN  Obj([k \in DOMAIN n |->
                    IF k \in {"customer_id", "timestamp"} /\ Truthy(n[k])
                    THEN NormalizeClickHouseType(n[k])
                    ELSE IF k = "data" /\ Truthy(n[k]) /\ n[k].t = "object"
                    THEN Obj([d \in DOMAIN n[k].v |->
                                NormalizeClickHouseType(n[k].v[d])])
                    ELSE n[k]])

\* the dataschema the full server injects when the caller gives none
DefaultDataschema ==
    Obj([customer_id |-> Str(Word("string")),
         timestamp |-> Str(Word("timestamp")),
         data |-> Obj([usage_amount |-> Str(Word("decimal")),
                       feature_id |-> Str(Word("string"))])])

\* the dataschema the simple server injects
DefaultDataschemaSimple ==
    Obj([customer_id |-> Str(Word("String")),
         timestamp |-> Str(Word("DateTime64")),
         data |-> Obj([String |-> Str(Word("String")),
                       Int64 |-> Str(Word("Int64")),
                       Float64 |-> Str(Word("Float64")),
                       Date32 |-> Str(Word("Date32")),
                       DateTime64 |-> Str(Word("DateTime64")),
                       UUID |-> Str(Word("UUID")),
                       Bool |-> Str(Word("Bool"))])])

TimestampOnly == Arr(<<Str(Word("timestamp"))>>)

\* bodyParams[key] = cleanArgs[key] || fallback, unless bodyParams[key] is set
WithDefault(bodyParams, cleanArgs, key, fallback) ==
    IF Truthy(Get(bodyParams, key)) THEN bodyParams
    ELSE Put(bodyParams, key,
             IF Truthy(Get(cleanArgs, key)) THEN cleanArgs[key] ELSE fallback)

\* the createRawMetric defaults of the full server; column_order is forced
WithRawMetricDefaults(bodyParams, cleanArgs) ==
    LET c == WithDefault(bodyParams, cleanArgs, "connector",
                         Str(Word("push_to_zenskar")))
        a == WithDefault(c, cleanArgs, "api_type", Str(Word("PUSH")))
        d == IF Truthy(Get(a, "dataschema")) THEN a
             ELSE Put(a, "dataschema", DefaultDataschema)
        n == Put(d, "dataschema", NormalizeRawMetricDataschema(d["dataschema"]))
    IN  Put(n, "column_order", TimestampOnly)

\* the createRawMetric defaults of the simple server; column_order is a
\* default
WithRawMetricDefaultsSimple(bodyArgs, toolArgs) ==
    LET c == WithDefault(bodyArgs, toolArgs, "connector",
                         Str(Word("push_to_zenskar")))
        a == WithDefault(c, toolArgs, "api_type", Str(Word("PUSH")))
        d == IF Truthy(Get(a, "dataschema")) THEN a
             ELSE Put(a, "dataschema", DefaultDataschemaSimple)
    IN  IF Truthy(Get(d, "column_order")) THEN d
        ELSE Put(d, "column_order", TimestampOnly)

\* extractContractFromRaw: organization_id filled from the resolved
\* organization id when the caller gave none
WithOrganizationId(bodyParams, ctx, e) ==
    IF Truthy(Get(bodyParams, "organization_id")) \/ ResolveOrgId(ctx, e) = <<>>
    THEN bodyParams
    ELSE Put(bodyParams, "organization_id", Str(ResolveOrgId(ctx, e)))

\* the JSON body of executeAPICall
BuildBody(tool, cleanArgs, ctx, e) ==
    IF tool.method \in {"GET", "DELETE"} THEN NoBody
    ELSE LET args == BodyParams(tool, cleanArgs, 1, EmptyObj)
             bodyParams ==
                 CASE tool.name = "extractContractFromRaw" ->
                          WithOrganizationId(args, ctx, e)
                   [] tool.name = "createRawMetric" ->
                          WithRawMetricDefaults(args, cleanArgs)
                   [] OTHER -> args
         IN  IF DOMAIN bodyParams = {} THEN NoBody
             ELSE [present |-> TRUE, params |-> bodyParams]

ApiBase == S("https://api.zenskar.com")

\* a builder that forgets to take the context key out of the arguments
BuildRequestKeepingContext(tool, args, e) ==
    LET ctx == ContextOf(args)
    IN  [url |-> <<ApiBase>> \o BuildPath(tool, args, tool.url, 1),
         query |-> BuildQuery(tool, args),
         method |-> tool.method,
         headers |-> BuildHeaders(tool, ctx, e),
         body |-> BuildBody(tool, args, ctx, e)]

\* everything executeAPICall hands to fetch()
BuildRequest(tool, args, e) ==
    LET ctx == ContextOf(args)
        cleanArgs == Without(args, ContextKey)
    IN  [url |-> <<ApiBase>> \o BuildPath(tool, cleanArgs, tool.url, 1),
         query |-> BuildQuery(tool, cleanArgs),
         method |-> tool.method,
         headers |-> BuildHeaders(tool, ctx, e),
         body |-> BuildBody(tool, cleanArgs, ctx, e)]

BaseUrl == S("${config.server.baseUrl}")

\* the simple server: path values that are truthy, substituted as they are
RECURSIVE BuildPathSimple(_, _, _, _)
BuildPathSimple(tool, toolArgs, url, i) ==
    IF i > Len(tool.args) THEN url
    ELSE LET arg == tool.args[i]
             x == Get(toolArgs, arg.name)
         IN  BuildPathSimple(tool, toolArgs,
                 IF arg.position = "path" /\ Truthy(x)
                 THEN ReplaceParam(url, arg.name,
                                   [kind |-> "raw", of |-> arg.name,
                                    value |-> Stringify(x)])
                 ELSE url,
                 i + 1)

\* the simple server: one entry per defined query-position argument
BuildQuerySimple(tool, toolArgs) ==
    LET keys == {k \in ArgNames(tool) :
                    HasArgAt(tool, "query", k) /\ Get(toolArgs, k).t # "undefined"}
    IN  [k \in keys |-> <<Stringify(toolArgs[k])>>]

BuildBodySimple(tool, toolArgs) ==
    IF tool.method \notin {"POST", "PUT", "PATCH"} THEN NoBody
    ELSE LET args == BodyParams(tool, toolArgs, 1, EmptyObj)
             bodyArgs == IF tool.name = "createRawMetric"
                         THEN WithRawMetricDefaultsSimple(args, toolArgs)
                         ELSE args
         IN  IF DOMAIN bodyArgs = {} THEN NoBody
             ELSE [present |-> TRUE, params |-> bodyArgs]

\* everything the simple server's executeTool hands to fetch()
BuildRequestSimple(tool, args) ==
    LET toolArgs == Without(Without(args, "organization"), "authorization")
    IN  [url |-> <<BaseUrl>> \o BuildPathSimple(tool, toolArgs, tool.url, 1),
         query |-> BuildQuerySimple(tool, toolArgs),
         method |-> tool.method,
         headers |-> BuildHeadersSimple(args["organization"].v,
                                        args["authorization"].v),
         body |-> BuildBodySimple(tool, toolArgs)]

-----------------------------------------------------------------------------
(* Approval Gate *)

\* userContext.approval.approved === true
CarriesApproval(ctx) ==
    /\ "approval" \in DOMAIN ctx
    /\ "approved" \in DOMAIN ctx.approval
    /\ ctx.approval.approved = TRUE

\* the handler's own isApproved: userContext?.approved === true
IsApproved(ctx) == "approved" \in DOMAIN ctx /\ ctx.approved = TRUE

\* Object.assign without clearing the caller's arguments first
ApplyModifiedArgumentsMerge(args, modified) ==
    [k \in DOMAIN args \cup DOMAIN modified |->
        IF k = ContextKey \/ k \notin DOMAIN modified THEN args[k]
        ELSE modified[k]]

\* the caller's arguments replaced by the reviewer's, __userContext kept
ApplyModifiedArguments(args, modified) ==
    [k \in DOMAIN modified \cup {ContextKey} |->
        IF k = ContextKey THEN args[ContextKey] ELSE modified[k]]

\* checkNeedsApproval: its verdict, and the argument object as it leaves it
CheckNeedsApproval(tool, args) ==
    LET ctx == ContextOf(args)
    IN  IF tool.needsApproval = "never" THEN [needs |-> FALSE, args |-> args]
        ELSE IF CarriesApproval(ctx)
        THEN [needs |-> FALSE,
              args |-> IF "modifiedArguments" \in DOMAIN ctx.approval
                       THEN ApplyModifiedArguments(args,
                                ctx.approval.modifiedArguments)
                       ELSE args]
        ELSE IF tool.needsApproval = "conditional"
        THEN [needs |-> NeedsApprovalPredicate(tool, args), args |-> args]
        ELSE [needs |-> TRUE, args |-> args]

\* whether the handler returns the approval artifact instead of executing
GateHolds(tool, args) ==
    /\ CheckNeedsApproval(tool, args).needs
    /\ ~IsApproved(ContextOf(CheckNeedsApproval(tool, args).args))

\* generateApprovalRequest
GenerateApprovalRequest(tool, args) ==
    LET cleanArgs == Without(args, ContextKey)
    IN  [type |-> "approval_required", toolName |-> tool.name,
         arguments |-> cleanArgs,
         fields |-> [i \in 1..Len(tool.args) |->
                       [name |-> tool.args[i].name,
                        required |-> tool.args[i].required,
                        value |-> Get(cleanArgs, tool.args[i].name)]]]

-----------------------------------------------------------------------------
(* Limit Enforcer *)

MaxPageSize == 100

\* the LimitPolicy of a tool's `limit` argument
LimitPolicy(toolName) ==
    CASE toolName = "listCustomers" -> [limited |-> TRUE, onViolation |-> "reject"]
      [] toolName = "listInvoices" -> [limited |-> TRUE, onViolation |-> "clamp"]
      [] toolName = "createInvoice" -> [limited |-> TRUE, onViolation |-> "clamp"]
      [] OTHER -> [limited |-> FALSE, onViolation |-> "none"]

\* an enforcer that halves an excessive limit instead of clamping it
EnforceLimitsHalving(toolName, args) ==
    LET policy == LimitPolicy(toolName)
        limit == Get(args, "limit")
        over == policy.limited /\ limit.t = "number" /\ limit.v > MaxPageSize
    IN  IF ~over
        THEN [valid |-> TRUE, adjustedArgs |-> args, warnings |-> <<>>,
              errors |-> <<>>]
        ELSE IF policy.onViolation = "clamp"
        THEN [valid |-> TRUE,
              adjustedArgs |-> [args EXCEPT !["limit"] = Num(limit.v \div 2)],
              warnings |-> <<"limit reduced">>,
              errors |-> <<>>]
        ELSE [valid |-> FALSE, adjustedArgs |-> args, warnings |-> <<>>,
              errors |-> <<"limit exceeds the maximum">>]

\* validateToolLimits of mcp-limits
EnforceLimits(toolName, args) ==
    LET policy == LimitPolicy(toolName)
        limit == Get(args, "limit")
        over == policy.limited /\ limit.t = "number" /\ limit.v > MaxPageSize
    IN  IF ~over
        THEN [valid |-> TRUE, adjustedArgs |-> args, warnings |-> <<>>,
              errors |-> <<>>]
        ELSE IF policy.onViolation = "clamp"
        THEN [valid |-> TRUE,
              adjustedArgs |-> [args EXCEPT !["limit"] = Num(MaxPageSize)],
              warnings |-> <<"limit reduced to the maximum">>,
              errors |-> <<>>]
        ELSE [valid |-> FALSE, adjustedArgs |-> args, warnings |-> <<>>,
              errors |-> <<"limit exceeds the maximum">>]

\* the stand-in used when mcp-limits cannot be loaded
EnforceLimitsFallback(toolName, args) ==
    [valid |-> TRUE, adjustedArgs |-> args, warnings |-> <<>>, errors |-> <<>>]

ValidateToolLimits(toolName, args) ==
    IF limitsLoaded THEN EnforceLimits(toolName, args)
    ELSE EnforceLimitsFallback(toolName, args)

-----------------------------------------------------------------------------
(* Results and usage records *)

NoReq == [sent |-> FALSE]
NoResult == [kind |-> "none"]

\* fetch() resolved or rejected, and with which status
NoResponse == [kind |-> "none", status |-> 0]

\* what an error's message carries: the labels put in front of it, outermost
\* first, and the status code and response text if it quotes them
NoError == [labels |-> <<>>, hasStatus |-> FALSE, status |-> 0, body |-> <<>>]
NoInvocation == [tool |-> "none"]
NoLimits == [valid |-> TRUE, adjustedArgs |-> EmptyObj, warnings |-> <<>>,
             errors |-> <<>>]

\* the SDK's answer to a call its compiled validator rejects
RejectedResult == [kind |-> "rejected", isError |-> TRUE, cause |-> "validation"]

\* { content, isApprovalRequired: true, approvalRequest }
ApprovalResult(request) ==
    [kind |-> "approval", isError |-> FALSE, cause |-> "none",
     approvalRequest |-> request]

\* the returned text of a call blocked by its limits: it asks for smaller
\* numbers ("try 10-20 items instead of larger amounts")
BlockedResult ==
    [kind |-> "blocked", isError |-> TRUE, cause |-> "limits",
     suggestsSmallerLimit |-> TRUE]

\* the returned text built from a caught error
ErrorResult(cause) == [kind |-> "error", isError |-> TRUE, cause |-> cause]

TextResult(source) == [kind |-> "text", isError |-> FALSE, cause |-> source]

UsageRecord(tool, status, reason) ==
    [tool |-> tool.name, status |-> status, reason |-> reason]

-----------------------------------------------------------------------------
(* Token estimates *)

\* Math.ceil(length / 4)
CeilDiv4(length) == (length + 3) \div 4

\* a text held as the parts it is concatenated from; its .length
RECURSIVE TextLength(_)
TextLength(parts) ==
    IF parts = <<>> THEN 0 ELSE Len(Head(parts)) + TextLength(Tail(parts))

\* the sum of f over the members of a set
RECURSIVE Sum(_, _)
Sum(f, members) ==
    IF members = {} THEN 0
    ELSE LET x == CHOOSE y \in members : TRUE
         IN  f[x] + Sum(f, members \ {x})

\* the commas between n members
Commas(n) == IF n > 1 THEN n - 1 ELSE 0

\* JSON.stringify(...).length: strings without escapes, numbers in decimal,
\* undefined members left out
RECURSIVE JsonLength(_), ObjectLength(_), ContextLength(_), FieldLength(_, _)
JsonLength(x) ==
    CASE x.t = "string" -> Len(x.v) + 2
      [] x.t = "number" -> Len(ToString(x.v))
      [] x.t = "boolean" -> IF x.v THEN 4 ELSE 5
      [] x.t = "null" -> 4
      [] x.t = "array" ->
            2 + Sum([i \in 1..Len(x.v) |-> JsonLength(x.v[i])], 1..Len(x.v))
              + Commas(Len(x.v))
      [] x.t = "object" -> ObjectLength(x.v)
      [] OTHER -> 0

\* an object of arguments; its context, if it holds one, is an object of
\* plain strings, flags, a header map and an approval decision
ObjectLength(obj) ==
    LET keys == {k \in DOMAIN obj : obj[k].t # "undefined"}
    IN  2 + Commas(Cardinality(keys))
          + Sum([k \in keys |->
                   Len(k) + 3 + IF k = ContextKey /\ obj[k].t = "object"
                                THEN ContextLength(obj[k].v)
                                ELSE JsonLength(obj[k])], keys)

ContextLength(ctx) ==
    2 + Commas(Cardinality(DOMAIN ctx))
      + Sum([k \in DOMAIN ctx |-> Len(k) + 3 + FieldLength(k, ctx[k])],
            DOMAIN ctx)

FieldLength(k, v) ==
    CASE k \in {"organization", "authorization", "apiKey"} -> Len(v) + 2
      [] k = "approved" -> IF v THEN 4 ELSE 5
      [] k = "headers" ->
            2 + Commas(Len(v))
              + Sum([i \in 1..Len(v) |-> Len(v[i][1]) + 3 + Len(v[i][2]) + 2],
                    1..Len(v))
      [] k = "approval" ->
            2 + Len("approved") + 3 + (IF v.approved THEN 4 ELSE 5)
              + IF "modifiedArguments" \in DOMAIN v
                THEN 1 + Len("modifiedArguments") + 3
                       + ObjectLength(v.modifiedArguments)
                ELSE 0
      [] OTHER -> 0

\* requestTokens = Math.ceil(JSON.stringify(args).length / 4)
RequestTokens(args) == CeilDiv4(ObjectLength(args))

\* the text returned for a call blocked by its limits; a character outside
\* ASCII is written as ASCII characters of the same length
BlockedText ==
    <<"I'm sorry, but this request is too large to process effici",
      "ently. To get better results, please try:\n\n[*] Using sma",
      "ller numbers when asking for lists (try 10-20 items instea",
      "d of larger amounts)\n[*] Being more specific with your se",
      "arch criteria\n[*] Breaking your request into smaller part",
      "s\n\nFor example, instead of asking for all customers, try",
      " asking for \"customers created this month\" or \"customer",
      "s from a specific region.\"">>

\* responseTokens = 200: "Estimated tokens for error message"
BlockedResponseTokens == 200

\* the notice appended to the text of a truncated status
WarningText ==
    <<"\n\n---\n**[::] Response Summary:**\nYour request returned",
      " a large amount of data, so I've shown you a summary with ",
      "the most relevant information. If you need more specific d",
      "etails, try asking for:\n\n[*] Specific items by ID or nam",
      "e\n[*] Data from a particular time period\n[*] Filtered re",
      "sults based on status or category\n\nThis helps ensure fas",
      "ter and more focused results.">>

\* what errorMessage ends with
ErrorAdvice ==
    <<"\n\nThis might be due to:\n- Invalid parameters\n- API rate limi",
      "ting\n- Network connectivity issues\n- Authentication problems",
      "\n- Token usage limits exceeded\n\nPlease check the parameters ",
      "and try again with smaller limits if needed.">>

\* the messages of the errors thrown when no identity resolves
OrgErrorMessage ==
    <<"Organization ID is required for API access. Set ZENSKAR_ORGA",
      "NIZATION env var or provide in user context.">>

AuthErrorMessage ==
    <<"Authorization token is required for API access. Set ZENSKAR_",
      "AUTH_TOKEN env var or provide in user context.">>

\* the message of the error fetch() rejects with
FetchErrorMessage == <<"fetch failed">>

\* `API request failed: ${response.status} ${response.statusText}\nResponse: ${responseText}`
ApiErrorMessage(status, body) ==
    <<"API request failed: ", ToString(status), " ", "\nResponse: ", body>>

\* `Network error: ${fetchError.message}`
NetworkErrorMessage(message) == <<"Network error: ">> \o message

\* errorMessage of the handler's catch
ErrorText(tool, message) ==
    <<"Error executing ", tool.name, ": ">> \o message \o ErrorAdvice

\* the message of the error a failed resolution throws
ResolutionErrorMessage(failure) ==
    IF failure = "org" THEN OrgErrorMessage ELSE AuthErrorMessage

\* JSON.stringify of getCurrentDateTime's result, two-space indented
ClockText ==
    <<"{\n  \"currentDate\": \"2024-01-01\",",
      "\n  \"currentDateTime\": \"2024-01-01T10:00:00.000Z\",",
      "\n  \"timestamp\": 1704103200000,",
      "\n  \"timezone\": \"UTC\",",
      "\n  \"humanReadable\": \"1/1/2024, 10:00:00 AM\"\n}">>

\* responseText: the processed result, with the notice when the status is
\* truncated
SuccessText(processed, truncated) ==
    IF truncated THEN processed \o WarningText ELSE processed

\* the usage record with its two estimates
Metered(record, requestTokens, responseTokens) ==
    record @@ [requestTokens |-> requestTokens,
               responseTokens |-> responseTokens,
               totalTokens |-> requestTokens + responseTokens]

-----------------------------------------------------------------------------
(* The handler registered for each tool *)

CanInvoke == pc = "idle" /\ invocations < MaxInvocations

\* an invocation counts as one of an approval-flagged tool when the gate's
\* flag is true for it: static, or the predicate on the current arguments
Flagged(tool, args) ==
    \/ tool.needsApproval = "always"
    \/ NeedsApprovalPredicate(tool, args)

\* a resolver check that forgets the credential
ResolutionErrorOrgOnly(ctx, e) ==
    IF ResolveOrgId(ctx, e) = <<>> THEN "org" ELSE "none"

\* the first error executeAPICall throws before it reaches fetch()
ResolutionError(ctx, e) ==
    IF ResolveOrgId(ctx, e) = <<>> THEN "org"
    ELSE IF ResolveAuthToken(ctx, e) = <<>> THEN "auth"
    ELSE "none"

\* the same two checks of the simple server's executeTool
ResolutionErrorSimple(args) ==
    IF ~Truthy(Get(args, "organization")) THEN "org"
    ELSE IF ~Truthy(Get(args, "authorization")) THEN "auth"
    ELSE "none"

\* a handler that ignores the verdict of the limits
LimitsBlockNever(limits) == FALSE

\* where the handler goes once the limits have been checked
LimitsBlock(limits) == ~limits.valid

Outcome(c, p, res, r, calls, u, approved, executed) ==
    [cur |-> c, pc |-> p, result |-> res, req |-> r, httpCalls |-> calls,
     usage |-> u, approved |-> approved, executed |-> executed]

\* the full server's handler, up to its first await
HandleFull(tool, rawArgs) ==
    LET v == Validate(tool, rawArgs)
        gate == CheckNeedsApproval(tool, v.args)
        args == gate.args
        ctx == ContextOf(args)
        limits == ValidateToolLimits(tool.name, args)
        adjusted == limits.adjustedArgs
        actx == ContextOf(adjusted)
        failure == ResolutionError(actx, env)
        carries == tool.needsApproval # "never" /\ CarriesApproval(ctx)
        flagged == Flagged(tool, v.args) \/ carries
        n == IF carries THEN 1 ELSE 0
        base == [tool |-> tool, callerArgs |-> rawArgs, validated |-> v.ok,
                 args |-> rawArgs, gate |-> "rejected", flagged |-> FALSE,
                 approved |-> FALSE, limits |-> NoLimits,
                 orgId |-> <<>>, authToken |-> <<>>, pending |-> NoResult,
                 sink |-> "none", response |-> NoResponse, thrown |-> NoError,
                 textLength |-> 0]
        entered == [base EXCEPT !.args = args, !.flagged = flagged,
                                !.approved = carries]
        requestTokens == RequestTokens(args)
        truncated == limits.warnings # <<>>
        passed == [entered EXCEPT !.gate = "passed", !.limits = limits]
        clockLength == TextLength(SuccessText(ClockText, truncated))
        errorLength ==
            TextLength(ErrorText(tool, ResolutionErrorMessage(failure)))
        resolved == [passed EXCEPT !.orgId = ResolveOrgId(actx, env),
                                   !.authToken = ResolveAuthToken(actx, env)]
    IN  IF ~v.ok
        THEN Outcome(base, "done", RejectedResult, NoReq, 0, <<>>, 0, 0)
        ELSE IF GateHolds(tool, v.args)
        THEN Outcome([entered EXCEPT !.gate = "held"], "done",
                     ApprovalResult(GenerateApprovalRequest(tool, args)),
                     NoReq, 0, <<>>, n, 0)
        ELSE IF LimitsBlock(limits)
        THEN Outcome([passed EXCEPT !.pending = BlockedResult,
                                    !.textLength = TextLength(BlockedText)],
                     "logging", NoResult, NoReq, 0,
                     <<Metered(UsageRecord(tool, "blocked", "limits"),
                               requestTokens, BlockedResponseTokens)>>, n, 0)
        ELSE IF tool.name = "getCurrentDateTime"
        THEN Outcome([passed EXCEPT !.pending = TextResult("clock"),
                                    !.textLength = clockLength],
                     "logging", NoResult, NoReq, 0,
                     <<Metered(UsageRecord(tool,
                                   IF truncated THEN "truncated" ELSE "success",
                                   "none"),
                               requestTokens, CeilDiv4(clockLength))>>, n, 0)
        ELSE IF failure # "none"
        THEN Outcome([resolved EXCEPT !.pending = ErrorResult(failure),
                                      !.textLength = errorLength],
                     "logging", NoResult, NoReq, 0,
                     <<Metered(UsageRecord(tool, "blocked", failure),
                               requestTokens, CeilDiv4(errorLength))>>, n, 0)
        ELSE Outcome(resolved, "fetching", NoResult,
                     [sent |-> TRUE] @@ BuildRequest(tool, adjusted, env),
                     1, <<>>, n, IF flagged THEN 1 ELSE 0)

\* the simple server's handler, up to its await of fetch()
HandleSimple(tool, rawArgs) ==
    LET v == Validate(tool, rawArgs)
        failure == ResolutionErrorSimple(rawArgs)
        base == [tool |-> tool, callerArgs |-> rawArgs, validated |-> v.ok,
                 args |-> rawArgs, gate |-> "rejected", flagged |-> FALSE,
                 approved |-> FALSE, limits |-> NoLimits,
                 orgId |-> <<>>, authToken |-> <<>>, pending |-> NoResult,
                 sink |-> "none", response |-> NoResponse, thrown |-> NoError,
                 textLength |-> 0]
        entered == [base EXCEPT !.gate = "passed",
                       !.orgId = Get(rawArgs, "organization").v,
                       !.authToken = Get(rawArgs, "authorization").v]
    IN  IF ~v.ok
        THEN Outcome(base, "done", RejectedResult, NoReq, 0, <<>>, 0, 0)
        ELSE IF failure # "none"
        THEN Outcome(entered, "done", ErrorResult(failure), NoReq, 0, <<>>, 0, 0)
        ELSE Outcome(entered, "fetching", NoResult,
                     [sent |-> TRUE] @@ BuildRequestSimple(tool, rawArgs),
                     1, <<>>, 0, 0)

Handle(tool, rawArgs) ==
    IF variant = "full" THEN HandleFull(tool, rawArgs)
    ELSE HandleSimple(tool, rawArgs)

\* a handler that keeps the context in one slot shared by all calls: a call
\* arriving while another is in flight runs under that other call's context
StartSharedContext(tool, rawArgs) ==
    LET shared == IF /\ peer.cur # NoInvocation
                     /\ ContextKey \in DOMAIN peer.cur.callerArgs
                  THEN Put(rawArgs, ContextKey, peer.cur.callerArgs[ContextKey])
                  ELSE rawArgs
        o == Handle(tool, shared)
    IN  /\ CanInvoke
        /\ invocations' = invocations + 1
        /\ cur' = [o.cur EXCEPT !.callerArgs = rawArgs]
        /\ pc' = o.pc
        /\ result' = o.result
        /\ req' = o.req
        /\ httpCalls' = o.httpCalls
        /\ usage' = o.usage
        /\ gateStats' = [approved |-> gateStats.approved + o.approved,
                         executed |-> gateStats.executed + o.executed]
        /\ UNCHANGED <<peer, variant, env, limitsLoaded>>

\* a call arrives: validation, then the handler up to its first await
Start(tool, rawArgs) ==
    /\ CanInvoke
    /\ \E o \in {Handle(tool, rawArgs)} :
        /\ invocations' = invocations + 1
        /\ cur' = o.cur
        /\ pc' = o.pc
        /\ result' = o.result
        /\ req' = o.req
        /\ httpCalls' = o.httpCalls
        /\ usage' = o.usage
        /\ gateStats' = [approved |-> gateStats.approved + o.approved,
                         executed |-> gateStats.executed + o.executed]
        /\ UNCHANGED <<peer, variant, env, limitsLoaded>>

\* the statuses the remote API answers with
Statuses == {200, 500}

\* response.ok
IsOk(status) == status \in 200..299

\* the raw text of a response
ResponseBody == <<"b", "o", "d", "y">>

\* the error fetch() rejects with
FetchError == NoError

\* new Error(`API request failed: ${response.status} ...\nResponse: ${responseText}`)
ApiError(status, body) ==
    [labels |-> <<"API request failed">>, hasStatus |-> TRUE,
     status |-> status, body |-> body]

\* new Error(`HTTP ${response.status}: ${responseText}`)
HttpError(status, body) ==
    [labels |-> <<"HTTP">>, hasStatus |-> TRUE, status |-> status, body |-> body]

\* new Error(`Network error: ${fetchError.message}`)
NetworkError(inner) == [inner EXCEPT !.labels = <<"Network error">> \o @]

\* `Error executing ${tool.name}: ${error.message}...`
ExecutingError(inner) == [inner EXCEPT !.labels = <<"Error executing">> \o @]

\* fetch() resolves with a response; non-2xx throws inside the try block and
\* is rethrown by its catch as a network error; a 2xx body, shorter than the
\* processor's ceiling, is returned as it came
FetchResponds ==
    /\ pc = "fetching"
    /\ \E status \in Statuses :
        LET ok == IsOk(status)
            got == [kind |-> "response", status |-> status]
            truncated == cur.limits.warnings # <<>>
            textLength == TextLength(SuccessText(<<ResponseBody>>, truncated))
            errorLength ==
                TextLength(ErrorText(cur.tool,
                    NetworkErrorMessage(ApiErrorMessage(status, ResponseBody))))
        IN  IF variant = "full"
            THEN /\ pc' = "logging"
                 /\ result' = result
                 /\ IF ok
                    THEN /\ cur' = [cur EXCEPT !.pending = TextResult("api"),
                                               !.response = got,
                                               !.textLength = textLength]
                         /\ usage' = Append(usage,
                                Metered(UsageRecord(cur.tool,
                                            IF truncated THEN "truncated"
                                            ELSE "success", "none"),
                                        RequestTokens(cur.args), CeilDiv4(textLength)))
                    ELSE /\ cur' = [cur EXCEPT
                                      !.pending = ErrorResult("network"),
                                      !.response = got,
                                      !.textLength = errorLength,
                                      !.thrown = ExecutingError(NetworkError(
                                          ApiError(status, ResponseBody)))]
                         /\ usage' = Append(usage,
                                Metered(UsageRecord(cur.tool, "blocked", "network"),
                                        RequestTokens(cur.args), CeilDiv4(errorLength)))
            ELSE /\ pc' = "done"
                 /\ result' = IF ok THEN TextResult("api") ELSE ErrorResult("api")
                 /\ cur' = [cur EXCEPT
                              !.response = got,
                              !.thrown = IF ok THEN NoError
                                         ELSE ExecutingError(
                                                  HttpError(status, ResponseBody))]
                 /\ UNCHANGED usage
    /\ UNCHANGED <<peer, variant, env, limitsLoaded, req, httpCalls, invocations,
                   gateStats>>

\* a transport failure that leaves the handler as an exception
FetchFailsUncaught ==
    /\ pc = "fetching"
    /\ pc' = "done"
    /\ result' = [kind |-> "thrown", isError |-> TRUE, cause |-> "uncaught"]
    /\ UNCHANGED <<peer, variant, env, limitsLoaded, cur, req, httpCalls, usage,
                   invocations, gateStats>>

\* fetch() rejects: a transport failure
FetchFails ==
    /\ pc = "fetching"
    /\ IF variant = "full"
       THEN LET errorLength ==
                    TextLength(ErrorText(cur.tool,
                        NetworkErrorMessage(FetchErrorMessage)))
            IN  /\ pc' = "logging"
                /\ result' = result
                /\ cur' = [cur EXCEPT
                             !.pending = ErrorResult("network"),
                             !.response = [kind |-> "failed", status |-> 0],
                             !.textLength = errorLength,
                             !.thrown = ExecutingError(NetworkError(FetchError))]
                /\ usage' = Append(usage,
                       Metered(UsageRecord(cur.tool, "blocked", "network"),
                               RequestTokens(cur.args), CeilDiv4(errorLength)))
       ELSE /\ pc' = "done"
            /\ result' = ErrorResult("transport")
            /\ cur' = [cur EXCEPT
                         !.response = [kind |-> "failed", status |-> 0],
                         !.thrown = ExecutingError(FetchError)]
            /\ UNCHANGED usage
    /\ UNCHANGED <<peer, variant, env, limitsLoaded, req, httpCalls, invocations,
                   gateStats>>

\* a handler that lets a failure of the sink reach its outer catch
ResultAfterSinkSurfaced(pending, acknowledged) ==
    IF acknowledged THEN pending ELSE ErrorResult("telemetry")

\* what the handler returns once the awaited logUsage has settled: a rejection
\* is caught and logged by the try/catch around the call
ResultAfterSink(pending, acknowledged) == pending

\* a handler that writes its usage record again when the sink rejected it
LogUsageSettlesRetried ==
    /\ pc = "logging"
    /\ \E acknowledged \in BOOLEAN :
        /\ result' = ResultAfterSink(cur.pending, acknowledged)
        /\ cur' = [cur EXCEPT !.sink = IF acknowledged THEN "ok" ELSE "failed"]
        /\ usage' = IF acknowledged THEN usage ELSE usage \o usage
    /\ pc' = "done"
    /\ UNCHANGED <<peer, variant, env, limitsLoaded, req, httpCalls,
                   invocations, gateStats>>

\* the awaited logUsage settles, fulfilled or rejected, and the handler returns
LogUsageSettles ==
    /\ pc = "logging"
    /\ \E acknowledged \in BOOLEAN :
        /\ result' = ResultAfterSink(cur.pending, acknowledged)
        /\ cur' = [cur EXCEPT !.sink = IF acknowledged THEN "ok" ELSE "failed"]
    /\ pc' = "done"
    /\ UNCHANGED <<peer, variant, env, limitsLoaded, req, httpCalls, usage,
                   invocations, gateStats>>

\* the locals of a handler that has not been entered
NoPeer ==
    [pc |-> "idle", cur |-> NoInvocation, req |-> NoReq, httpCalls |-> 0,
     usage |-> <<>>, result |-> NoResult]

\* the event loop turns to the other invocation: each handler's locals live in
\* its own closure, so the two sets of locals trade places and nothing else
\* changes
Switch ==
    /\ peer' = [pc |-> pc, cur |-> cur, req |-> req, httpCalls |-> httpCalls,
                usage |-> usage, result |-> result]
    /\ pc' = peer.pc
    /\ cur' = peer.cur
    /\ req' = peer.req
    /\ httpCalls' = peer.httpCalls
    /\ usage' = peer.usage
    /\ result' = peer.result
    /\ UNCHANGED <<variant, env, limitsLoaded, invocations, gateStats>>

\* the call is over: its context, request and result are discarded
Release ==
    /\ pc = "done"
    /\ pc' = "idle"
    /\ cur' = NoInvocation
    /\ req' = NoReq
    /\ httpCalls' = 0
    /\ usage' = <<>>
    /\ result' = NoResult
    /\ UNCHANGED <<peer, variant, env, limitsLoaded, invocations, gateStats>>

-----------------------------------------------------------------------------
(* The calls and environments the model draws from *)

Jwt == <<"h", ".", "p", ".", "s">>
JwtB == <<"x", ".", "y", ".", "z">>
JwtEnv == <<"e", ".", "n", ".", "v">>
ApiKeyLike == <<"k", "e", "y">>
TwoPart == <<"a", ".", "b">>
OrgA == <<"o", "r", "g", "A">>
OrgB == <<"o", "r", "g", "B">>
OrgEnv == <<"o", "r", "g", "E">>
CustomerId == <<"c", "1">>
Text == <<"t", "x", "t">>

\* an object from a key -> value choice, the keys chosen undefined left out
Defined(f) == [k \in {key \in DOMAIN f : f[key].t # "undefined"} |-> f[k]]

Date == <<"2", "0", "2", "4", "-", "0", "1", "-", "0", "1">>
Time == <<"1", "0", ":", "0", "0", ":", "0", "0">>
Offset == <<"+", "0", "5", ":", "3", "0">>
IsoUtc == Date \o <<"T">> \o Time \o <<"Z">>
IsoLocal == Date \o <<"T">> \o Time
IsoOffset == Date \o <<"T">> \o Time \o Offset
Label == <<"T", "e", "s", "t", "Z">>

\* the events of ingestRawMetricEvent calls
Events ==
    {Obj(Defined([timestamp |-> ts, data |-> d, customer_id |-> c, label |-> l])) :
        ts \in {Undefined, Str(IsoUtc), Str(IsoLocal), Str(IsoOffset), Num(17)},
        d \in {Undefined, Null, Arr(<<Str(IsoUtc)>>),
               Obj([DateTime64 |-> Str(IsoUtc), note |-> Str(Label)]),
               Obj([DateTime |-> Str(IsoLocal), DateTime32 |-> Str(IsoOffset),
                    stamp |-> Str(IsoUtc)]),
               Obj([DateTime64 |-> Num(17)])},
        c \in {Undefined, Str(CustomerId)},
        l \in {Undefined, Str(Label)}}

\* a dataschema as a caller writes it
CallerDataschema ==
    Obj([customer_id |-> Str(Word("string")),
         timestamp |-> Str(Word(" int64 ")),
         data |-> Obj([amount |-> Str(Word("Float64")),
                       flag |-> Str(Word("Boolean")),
                       other |-> Str(Word("decimal")),
                       blank |-> Str(Word("  "))])])

\* the candidate values of each argument of a tool, declared or not
ArgChoices(tool) ==
    CASE tool.name = "listCustomers" ->
            [limit |-> {Undefined, Num(10), Num(100), Num(500)},
             status |-> {Undefined, Str(Text), Str(<<>>), Null},
             cursor |-> {Undefined, Str(Text)}]
      [] tool.name = "getCustomer" ->
            [customer_id |-> {Undefined, Str(CustomerId), Str(<<>>)},
             expand |-> {Undefined, Bool(TRUE), Bool(FALSE)},
             fields |-> {Undefined, Arr(<<Str(Text), Str(CustomerId)>>),
                         Arr(<<>>)}]
      [] tool.name = "listInvoices" ->
            [limit |-> {Undefined, Num(10), Num(150)},
             status |-> {Undefined, Str(Text)}]
      [] tool.name = "createInvoice" ->
            [customer_id |-> {Undefined, Str(CustomerId)},
             limit |-> {Undefined, Num(10), Num(1000)},
             note |-> {Undefined, Str(Text)}]
      [] tool.name = "createPayment" ->
            [customer_id |-> {Undefined, Str(CustomerId)},
             amount |-> {Undefined, Num(50), Num(5000), Str(Text)}]
      [] tool.name = "ingestRawMetricEvent" ->
            [event |-> Events \cup {Str(IsoUtc)}]
      [] tool.name = "createRawMetric" ->
            [name |-> {Undefined, Str(Text)},
             connector |-> {Undefined, Str(Word("s3"))},
             dataschema |-> {Undefined, CallerDataschema},
             column_order |->
                 {Undefined, Arr(<<>>), TimestampOnly,
                  Arr(<<Str(Word("customer_id")), Str(Word("timestamp"))>>)}]
      [] tool.name = "extractContractFromRaw" ->
            [raw_text |-> {Str(Text)},
             organization_id |-> {Undefined, Str(OrgB)}]
      [] OTHER -> EmptyObj

ToolArgs(tool) ==
    LET choices == ArgChoices(tool)
        all == UNION {choices[k] : k \in DOMAIN choices}
    IN  {Defined(f) : f \in {g \in [DOMAIN choices -> all] :
                                \A k \in DOMAIN choices : g[k] \in choices[k]}}

\* what a reviewer may send back as approval.modifiedArguments
ModifiedArguments(tool) ==
    CASE tool.name = "createInvoice" ->
            {[limit |-> Num(10)],
             [customer_id |-> Str(CustomerId), limit |-> Num(150)],
             [customer_id |-> Str(CustomerId),
              __userContext |-> Obj([organization |-> OrgB,
                                     authorization |-> JwtB])]}
      [] tool.name = "createPayment" ->
            {[customer_id |-> Str(CustomerId), amount |-> Num(50)],
             [customer_id |-> Str(CustomerId), amount |-> Num(5000)]}
      [] OTHER -> {[limit |-> Num(10)]}

Approvals(tool) ==
    {[approved |-> FALSE], [approved |-> TRUE]}
        \cup {[approved |-> TRUE, modifiedArguments |-> m] :
                m \in ModifiedArguments(tool)}
        \cup {[approved |-> FALSE, modifiedArguments |-> m] :
                m \in ModifiedArguments(tool)}

Identities ==
    {EmptyObj, [organization |-> OrgA, authorization |-> Jwt]}

\* contexts that vary the approval decision
GateContexts(tool) ==
    IF tool.needsApproval = "never"
    THEN Identities \cup
         {id @@ [approval |-> a] :
             id \in Identities,
             a \in {[approved |-> TRUE, modifiedArguments |-> m] :
                       m \in ModifiedArguments(tool)}}
    ELSE Identities
         \cup {id @@ [approval |-> a] : id \in Identities, a \in Approvals(tool)}
         \cup {id @@ [approved |-> TRUE] : id \in Identities}
         \cup {id @@ [approved |-> TRUE, approval |-> a] :
                  id \in Identities, a \in Approvals(tool)}

HeaderMaps ==
    {<<>>,
     <<<<"authorization", JwtB>>>>,
     <<<<"Authorization", BearerPrefix \o JwtB>>>>,
     <<<<"Authorization", ApiKeyLike>>>>,
     <<<<"organisation", OrgB>>>>,
     <<<<"x-api-key", ApiKeyLike>>>>,
     <<<<"Content-Type", Text>>, <<"X-Trace", Text>>>>,
     <<<<"X-Trace", Text>>, <<"x-trace", CustomerId>>>>}

\* a context object from its optional string fields and header map
Context(organization, authorization, apiKey, headers) ==
    LET fields == [organization |-> organization,
                   authorization |-> authorization,
                   apiKey |-> apiKey, headers |-> headers]
    IN  [k \in {key \in DOMAIN fields : fields[key] # <<>>} |-> fields[k]]

\* contexts that vary where the organization id and the credential come from
AuthContexts ==
    {Context(o, a, k, hs) :
        o \in {<<>>, OrgA},
        a \in {<<>>, Jwt, BearerPrefix \o Jwt, ApiKeyLike, TwoPart},
        k \in {<<>>, ApiKeyLike},
        hs \in HeaderMaps}

\* the calls of a tool: its arguments with one of the contexts, or with none
Calls(toolArgs, contexts) ==
    toolArgs \cup
    {a @@ [__userContext |-> Obj(c)] : a \in toolArgs, c \in contexts}

\* the simple server's calls: organization and authorization are arguments
SimpleCalls(toolArgs, organizations, authorizations) ==
    {a @@ Defined([organization |-> o, authorization |-> t]) :
        a \in toolArgs, o \in organizations, t \in authorizations}

AuthTools == {GetCustomer, ListCustomers}

AuthToolArgs(tool) ==
    IF tool.name = "getCustomer" THEN {[customer_id |-> Str(CustomerId)]}
    ELSE {EmptyObj}

NoEnv == [org |-> <<>>, token |-> <<>>]

Envs ==
    {[org |-> o, token |-> t] :
        o \in {<<>>, OrgEnv},
        t \in {<<>>, JwtEnv, BearerPrefix \o JwtEnv, ApiKeyLike}}

-----------------------------------------------------------------------------
(* Specifications *)

Idle ==
    /\ pc = "idle"
    /\ cur = NoInvocation
    /\ req = NoReq
    /\ httpCalls = 0
    /\ usage = <<>>
    /\ result = NoResult
    /\ invocations = 0
    /\ gateStats = [approved |-> 0, executed |-> 0]
    /\ peer = NoPeer

\* the pairs <<tool, call>> the pipeline is exercised with
FullCalls ==
    UNION {{<<tool, call>> : call \in Calls(ToolArgs(tool), GateContexts(tool))} :
              tool \in Catalog}

SimpleIdentityCalls ==
    UNION {{<<tool, call>> :
               call \in SimpleCalls(ToolArgs(tool), {Str(<<>>), Str(OrgA)},
                                    {Str(<<>>), Str(Jwt)})} :
              tool \in Catalog}

\* the pairs <<tool, call>> the credential resolver is exercised with
FullAuthCalls ==
    UNION {{<<tool, call>> : call \in Calls(AuthToolArgs(tool), AuthContexts)} :
              tool \in AuthTools}

SimpleAuthCalls ==
    UNION {{<<tool, call>> :
               call \in SimpleCalls(AuthToolArgs(tool),
                            {Undefined, Str(<<>>), Str(OrgA)},
                            {Undefined, Str(<<>>), Str(Jwt),
                             Str(BearerPrefix \o Jwt), Str(ApiKeyLike),
                             Str(TwoPart)})} :
              tool \in AuthTools}

\* the pipeline over the whole catalog, identity supplied by the call or by
\* the environment
Init ==
    /\ variant \in {"full", "simple"}
    /\ env \in {NoEnv, [org |-> OrgEnv, token |-> JwtEnv]}
    /\ limitsLoaded \in BOOLEAN
    /\ variant = "simple" => env = NoEnv /\ limitsLoaded = FALSE
    /\ Idle

Invoke ==
    \E c \in IF variant = "full" THEN FullCalls ELSE SimpleIdentityCalls :
        Start(c[1], c[2])

Next == Invoke \/ FetchResponds \/ FetchFails \/ LogUsageSettles \/ Release

Spec == Init /\ [][Next]_vars

\* the credential resolver over every source of identity
InitAuth ==
    /\ variant \in {"full", "simple"}
    /\ env \in Envs
    /\ limitsLoaded = TRUE
    /\ variant = "simple" => env = NoEnv
    /\ Idle

InvokeAuth ==
    \E c \in IF variant = "full" THEN FullAuthCalls ELSE SimpleAuthCalls :
        Start(c[1], c[2])

NextAuth ==
    InvokeAuth \/ FetchResponds \/ FetchFails \/ LogUsageSettles \/ Release

SpecAuth == InitAuth /\ [][NextAuth]_vars

\* the pairs <<tool, call>> the body transforms are exercised with
FullBodyCalls ==
    UNION {{<<tool, call>> : call \in Calls(ToolArgs(tool), Identities)} :
              tool \in TransformTools}

SimpleBodyCalls ==
    UNION {{<<tool, call>> :
               call \in SimpleCalls(ToolArgs(tool), {Str(OrgA)}, {Str(Jwt)})} :
              tool \in TransformTools}

\* the request builder over the tools whose body it rewrites
InitBody ==
    /\ variant \in {"full", "simple"}
    /\ env \in {NoEnv, [org |-> OrgEnv, token |-> JwtEnv]}
    /\ limitsLoaded = TRUE
    /\ variant = "simple" => env = NoEnv
    /\ Idle

InvokeBody ==
    \E c \in IF variant = "full" THEN FullBodyCalls ELSE SimpleBodyCalls :
        Start(c[1], c[2])

NextBody ==
    InvokeBody \/ FetchResponds \/ FetchFails \/ LogUsageSettles \/ Release

SpecBody == InitBody /\ [][NextBody]_vars

\* the pipeline when the outbound HTTP call and the telemetry sink each
\* eventually complete or fail
SpecLive ==
    /\ Init
    /\ [][Next]_vars
    /\ WF_vars(FetchResponds \/ FetchFails)
    /\ WF_vars(LogUsageSettles)

\* the calls two clients of different organizations send at the same time
PairTools == {GetCustomer, ListCustomers, CreateInvoice}

PairArgs(tool) ==
    CASE tool.name = "getCustomer" ->
            {[customer_id |-> Str(CustomerId)], [customer_id |-> Str(Text)]}
      [] tool.name = "listCustomers" ->
            {[status |-> Str(Text)],
             [cursor |-> Str(CustomerId), limit |-> Num(500)]}
      [] OTHER ->
            {[customer_id |-> Str(CustomerId), note |-> Str(Text)],
             [customer_id |-> Str(Text), limit |-> Num(1000)]}

PairIdentities ==
    {EmptyObj, [organization |-> OrgA, authorization |-> Jwt],
     [organization |-> OrgB, authorization |-> JwtB]}

PairContexts(tool) ==
    IF tool.needsApproval = "never" THEN PairIdentities
    ELSE PairIdentities
         \cup {id @@ [approval |-> [approved |-> TRUE]] : id \in PairIdentities}

FullPairCalls ==
    UNION {{<<tool, call>> : call \in Calls(PairArgs(tool), PairContexts(tool))} :
              tool \in PairTools}

SimplePairCalls ==
    UNION {{<<tool, call>> :
               call \in SimpleCalls(PairArgs(tool),
                                    {Undefined, Str(OrgA), Str(OrgB)},
                                    {Str(Jwt), Str(JwtB)})} :
              tool \in PairTools}

\* two invocations in flight at once, their steps interleaved at the awaits
InitPair ==
    /\ variant \in {"full", "simple"}
    /\ env \in {NoEnv, [org |-> OrgEnv, token |-> JwtEnv]}
    /\ limitsLoaded = TRUE
    /\ variant = "simple" => env = NoEnv
    /\ Idle

InvokePair ==
    \E c \in IF variant = "full" THEN FullPairCalls ELSE SimplePairCalls :
        Start(c[1], c[2])

NextPair ==
    \/ InvokePair
    \/ Switch
    \/ FetchResponds
    \/ FetchFails
    \/ LogUsageSettles
    \/ Release

SpecPair == InitPair /\ [][NextPair]_vars

\* a context that carries every kind of content
RichContext ==
    Context(OrgA, Jwt, ApiKeyLike, <<<<"X-Trace", JwtB>>>>)

ContextTools == {GetCustomer, ListCustomers, CreateInvoice, ExtractContractFromRaw}

ContextArgs(tool) ==
    IF tool.name = "extractContractFromRaw" THEN ToolArgs(tool)
    ELSE PairArgs(tool)

ContextChoices(tool) ==
    GateContexts(tool)
        \cup {RichContext}
        \cup {RichContext @@ [approval |-> a] : a \in Approvals(tool)}

FullContextCalls ==
    UNION {{<<tool, call>> :
               call \in Calls(ContextArgs(tool), ContextChoices(tool))} :
              tool \in ContextTools}

SimpleContextCalls ==
    UNION {{<<tool, call>> :
               call \in SimpleCalls(ContextArgs(tool), {Str(OrgA)},
                                    {Str(Jwt), Str(ApiKeyLike)})} :
              tool \in ContextTools}

\* the pipeline over calls whose context carries an organization id, a
\* credential, extra headers and an approval decision
InitContext ==
    /\ variant \in {"full", "simple"}
    /\ env \in {NoEnv, [org |-> OrgEnv, token |-> JwtEnv]}
    /\ limitsLoaded = TRUE
    /\ variant = "simple" => env = NoEnv
    /\ Idle

InvokeContext ==
    \E c \in IF variant = "full" THEN FullContextCalls ELSE SimpleContextCalls :
        Start(c[1], c[2])

NextContext ==
    InvokeContext \/ FetchResponds \/ FetchFails \/ LogUsageSettles \/ Release

SpecContext == InitContext /\ [][NextContext]_vars

TypeOK ==
    /\ variant \in {"full", "simple"}
    /\ pc \in {"idle", "fetching", "logging", "done"}
    /\ httpCalls \in 0..1
    /\ invocations \in 0..MaxInvocations
    /\ req.sent = (httpCalls = 1)

-----------------------------------------------------------------------------
(* Properties *)

Active == pc # "idle"

\* the context object the caller passed in
CallerContext == ContextOf(cur.callerArgs)

\* what the handler returns, once known
Returned == IF pc = "done" THEN result ELSE cur.pending

\* the invocation got as far as executeAPICall's credential checks
ReachedResolver ==
    /\ Active
    /\ cur.validated
    /\ cur.gate = "passed"
    /\ cur.limits.valid
    /\ cur.tool.name # "getCurrentDateTime"

\* the token of a credential, without a leading "Bearer "
Bare(s) ==
    IF StartsWith(s, BearerPrefix)
    THEN SubSeq(s, Len(BearerPrefix) + 1, Len(s))
    ELSE s

Segments(s) == 1 + Cardinality({i \in 1..Len(s) : s[i] = "."})

\* the credential as its source holds it
SourceCredential ==
    IF variant = "full"
    THEN OrElse(Field(CallerContext, "authorization"),
           OrElse(HeaderGet(Field(CallerContext, "headers"), "authorization"),
             OrElse(HeaderGet(Field(CallerContext, "headers"), "Authorization"),
                    env.token)))
    ELSE Get(cur.callerArgs, "authorization").v

\* C1: a request is sent only with a resolved organization id and a resolved
\* credential; an invocation that reaches the credential checks without an
\* organization id ends in an auth error and sends nothing, and so does one
\* without a credential.
C1_RequestOnlyWithIdentity ==
    /\ req.sent =>
          /\ cur.orgId # <<>>
          /\ cur.authToken # <<>>
          /\ HeaderGet(req.headers, "organisation") # <<>>
          /\ HeaderGet(req.headers, "Authorization") # <<>>
    /\ ReachedResolver /\ cur.orgId = <<>> =>
          /\ httpCalls = 0
          /\ ~req.sent
          /\ Returned = ErrorResult("org")
    /\ ReachedResolver /\ cur.authToken = <<>> =>
          /\ httpCalls = 0
          /\ ~req.sent
          /\ Returned \in {ErrorResult("org"), ErrorResult("auth")}

\* an organization id resolved, no credential did: auth error, nothing sent
C1_Witness ==
    /\ pc = "done"
    /\ variant = "full"
    /\ cur.orgId # <<>>
    /\ cur.authToken = <<>>
    /\ result = ErrorResult("auth")
    /\ httpCalls = 0

\* C2: a tool whose needsApproval is true for the call, invoked with a context
\* that carries no approval.approved === true, returns the approval artifact
\* and makes no HTTP call.
C2_GateHoldsWithoutDecision ==
    (/\ variant = "full"
     /\ Active
     /\ cur.validated
     /\ Flagged(cur.tool, Validate(cur.tool, cur.callerArgs).args)
     /\ ~CarriesApproval(CallerContext))
    => /\ httpCalls = 0
       /\ pc = "done"
       /\ result.kind = "approval"

\* the approved, modified re-invocation of an approval-flagged tool
ApprovedWithModifiedArguments ==
    /\ variant = "full"
    /\ Active
    /\ cur.validated
    /\ cur.tool.needsApproval # "never"
    /\ CarriesApproval(CallerContext)
    /\ "modifiedArguments" \in DOMAIN CallerContext.approval

\* C3: on an approved re-invocation with modifiedArguments, the arguments the
\* Limit Enforcer sees are exactly modifiedArguments, the request is built from
\* them alone (a clamped limit aside), and the context is the caller's own
\* even when modifiedArguments holds a context key.
C3_ApprovedArgumentsReplace ==
    ApprovedWithModifiedArguments =>
        LET m == Without(CallerContext.approval.modifiedArguments, ContextKey)
        IN  /\ cur.gate = "passed"
            /\ Without(cur.args, ContextKey) = m
            /\ cur.args[ContextKey] = cur.callerArgs[ContextKey]
            /\ req.sent =>
                 /\ \A k \in DOMAIN req.query :
                       /\ k \in DOMAIN m
                       /\ \/ req.query[k] = QueryEntries(m[k])
                          \/ /\ k = "limit"
                             /\ cur.limits.warnings # <<>>
                             /\ req.query[k] = QueryEntries(Num(MaxPageSize))
                 /\ \A k \in DOMAIN req.body.params :
                       k \in DOMAIN m /\ req.body.params[k] = m[k]
                 /\ HeaderGet(req.headers, "organisation") =
                       OrElse(Field(CallerContext, "organization"), env.org)

\* called with limit 1000, approved with {limit: 10}: sent with limit = 10
C3_Witness ==
    /\ ApprovedWithModifiedArguments
    /\ req.sent
    /\ Get(cur.callerArgs, "limit") = Num(1000)
    /\ CallerContext.approval.modifiedArguments = [limit |-> Num(10)]
    /\ req.query = [limit |-> <<Stringify(Num(10))>>]

\* C4: the HTTP calls made by invocations of approval-flagged tools never
\* outnumber the invocations that carried an approved decision; one
\* invocation makes at most one call, and one that returns the approval
\* artifact makes none.
C4_ExecutedAtMostOncePerApproval ==
    /\ gateStats.executed <= gateStats.approved
    /\ httpCalls <= 1
    /\ Active /\ result.kind = "approval" => httpCalls = 0

\* C5: when the Limit Enforcer reports the arguments invalid, no HTTP call is
\* made and the handler returns the message that asks for a smaller limit.
C5_LimitViolationBlocks ==
    (/\ variant = "full"
     /\ Active
     /\ cur.validated
     /\ cur.gate = "passed"
     /\ ~ValidateToolLimits(cur.tool.name, cur.args).valid)
    => /\ httpCalls = 0
       /\ ~req.sent
       /\ pc \in {"logging", "done"}
       /\ Returned.kind = "blocked"
       /\ Returned.suggestsSmallerLimit

\* listCustomers with limit = 500 against the maximum of 100
C5_Witness ==
    /\ pc = "done"
    /\ cur.tool.name = "listCustomers"
    /\ Get(cur.callerArgs, "limit") = Num(500)
    /\ result.kind = "blocked"
    /\ httpCalls = 0

\* a required argument of the tool is missing from the call
OmitsRequired(withDefault) ==
    \E i \in 1..Len(cur.tool.args) :
        /\ cur.tool.args[i].required
        /\ cur.tool.args[i].name \notin DOMAIN cur.callerArgs
        /\ withDefault \/ cur.tool.args[i].default.t = "undefined"

C7_ShapeDecidesScheme ==
    req.sent =>
        LET token == Bare(SourceCredential)
        IN  IF Segments(token) = 3
            THEN HeaderGet(req.headers, "Authorization") = BearerPrefix \o token
            ELSE /\ HeaderGet(req.headers, "x-api-key") = token
                 /\ "Authorization" \notin HeaderKeys(req.headers)

\* C8: whatever the source of the credential and whether or not it starts with
\* "Bearer ", the Authorization header is "Bearer " followed by the bare token.
C8_BearerPrefixedOnce ==
    req.sent =>
        HeaderGet(req.headers, "Authorization")
            = BearerPrefix \o Bare(SourceCredential)

\* the header-map entry of the credential
HeaderCredential ==
    OrElse(HeaderGet(Field(CallerContext, "headers"), "authorization"),
           HeaderGet(Field(CallerContext, "headers"), "Authorization"))

\* C9 as stated: organization id and credential both resolve from the context
\* first, then from the header map, then from the process-level fallback.
C9_SamePriorityForBoth ==
    variant = "full" /\ ReachedResolver =>
        /\ cur.orgId =
              OrElse(Field(CallerContext, "organization"),
                OrElse(HeaderGet(Field(CallerContext, "headers"), "organisation"),
                       env.org))
        /\ LET chosen == OrElse(Field(CallerContext, "authorization"),
                             OrElse(HeaderCredential, env.token))
           IN  cur.authToken \in {chosen, BearerPrefix \o chosen}

\* C9: the credential resolves from the context first, then from the header
\* map, then from the process-level fallback; the organization id resolves
\* from the context first and then from the process-level fallback, its
\* header-map entry is not consulted.
C9_PriorityOrder ==
    variant = "full" /\ ReachedResolver =>
        LET org == Field(CallerContext, "organization")
            auth == Field(CallerContext, "authorization")
        IN  /\ org # <<>> => cur.orgId = org
            /\ org = <<>> => cur.orgId = env.org
            /\ req.sent => HeaderGet(req.headers, "organisation") = cur.orgId
            /\ auth # <<>> => cur.authToken = auth
            /\ auth = <<>> /\ HeaderCredential # <<>> =>
                  cur.authToken = HeaderCredential
            /\ auth = <<>> /\ HeaderCredential = <<>> /\ env.token # <<>> =>
                  cur.authToken = BearerPrefix \o env.token
            /\ auth = <<>> /\ HeaderCredential = <<>> /\ env.token = <<>> =>
                  cur.authToken = <<>>

\* no organization in the context, one in the header map, one in the
\* environment: the request carries the environment's
C9_Witness ==
    /\ variant = "full"
    /\ req.sent
    /\ Field(CallerContext, "organization") = <<>>
    /\ HeaderGet(Field(CallerContext, "headers"), "organisation") = OrgB
    /\ env.org = OrgEnv
    /\ HeaderGet(req.headers, "organisation") = OrgEnv

\* C10: an argument declared with position path is never a key of the query
\* string.
C10_PathArgumentNotInQuery ==
    req.sent =>
        \A k \in DOMAIN req.query : ~HasArgAt(cur.tool, "path", k)

\* a path argument was supplied and the fallback appended another argument
C10_Witness ==
    /\ variant = "full"
    /\ req.sent
    /\ cur.tool.name = "getCustomer"
    /\ Get(cur.callerArgs, "customer_id") = Str(CustomerId)
    /\ "fields" \in DOMAIN req.query

\* C11: when the Limit Enforcer reports valid with adjusted arguments A, a
\* second run on A reports valid, returns A and adjusts nothing further.
C11_LimitsIdempotent ==
    (/\ variant = "full"
     /\ Active
     /\ cur.validated
     /\ cur.gate = "passed"
     /\ cur.limits.valid)
    => LET again == ValidateToolLimits(cur.tool.name, cur.limits.adjustedArgs)
       IN  /\ again.valid
           /\ again.adjustedArgs = cur.limits.adjustedArgs
           /\ again.warnings = <<>>

\* a limit of 1000 was clamped to the maximum on the first run
C11_Witness ==
    /\ variant = "full"
    /\ Active
    /\ cur.gate = "passed"
    /\ Get(cur.args, "limit") = Num(1000)
    /\ cur.limits.valid
    /\ cur.limits.warnings # <<>>
    /\ Get(cur.limits.adjustedArgs, "limit") = Num(MaxPageSize)

\* the outbound body of the current request
Body == req.body.params

\* ISO-8601 timestamps and the form the backend takes them in
IsoStamps ==
    {[raw |-> IsoUtc, sent |-> Date \o <<" ">> \o Time],
     [raw |-> IsoLocal, sent |-> Date \o <<" ">> \o Time],
     [raw |-> IsoOffset, sent |-> Date \o <<" ">> \o Time \o Offset]}

\* a value as it is to be sent from a timestamp position
IsoSent(x) ==
    IF x.t = "string" /\ \E r \in IsoStamps : r.raw = x.v
    THEN Str((CHOOSE r \in IsoStamps : r.raw = x.v).sent)
    ELSE x

\* the object-valued event of the current ingestRawMetricEvent call
EventSent ==
    /\ req.sent
    /\ cur.tool.name = "ingestRawMetricEvent"
    /\ Get(cur.callerArgs, "event").t = "object"

\* C12: for ingestRawMetricEvent with an object-valued event, the ISO-8601
\* timestamps at event.timestamp and event.data.DateTime64/DateTime/DateTime32
\* are sent with the separator replaced by a space and a trailing Z removed,
\* and every other field of the event is sent unchanged.
C12_EventTimestampsReformatted ==
    EventSent =>
        LET e == cur.callerArgs["event"].v
        IN  \A k \in DOMAIN e :
              /\ k \in DOMAIN Body
              /\ IF k = "timestamp" THEN Body[k] = IsoSent(e[k])
                 ELSE IF k = "data" /\ e[k].t = "object"
                 THEN /\ Body[k].t = "object"
                      /\ DOMAIN Body[k].v = DOMAIN e[k].v
                      /\ \A d \in DOMAIN e[k].v :
                            Body[k].v[d] = IF d \in DateTimeKeys
                                           THEN IsoSent(e[k].v[d])
                                           ELSE e[k].v[d]
                 ELSE Body[k] = e[k]

\* "2024-01-01T10:00:00Z" is sent as "2024-01-01 10:00:00", next to a label
\* and a data field that are sent as they came
C12_Witness ==
    /\ EventSent
    /\ Get(cur.callerArgs["event"].v, "timestamp") = Str(IsoUtc)
    /\ Get(Body, "timestamp") = Str(Date \o <<" ">> \o Time)
    /\ Get(Body, "label") = Str(Label)
    /\ Get(Body, "data") =
          Obj([DateTime64 |-> Str(Date \o <<" ">> \o Time), note |-> Str(Label)])

\* the default dataschema as the full server sends it, its type names in the
\* backend's spelling
DefaultDataschemaSent ==
    Obj([customer_id |-> Str(Word("String")),
         timestamp |-> Str(Word("timestamp")),
         data |-> Obj([usage_amount |-> Str(Word("decimal")),
                       feature_id |-> Str(Word("String"))])])

\* C13: every createRawMetric request carries column_order = ["timestamp"],
\* whatever the caller supplied for it, and the default dataschema when the
\* caller supplied none.
C13_ColumnOrderForced ==
    req.sent /\ cur.tool.name = "createRawMetric" =>
        /\ Get(Body, "column_order") = TimestampOnly
        /\ "dataschema" \notin DOMAIN cur.callerArgs =>
              Get(Body, "dataschema") =
                  IF variant = "full" THEN DefaultDataschemaSent
                  ELSE DefaultDataschemaSimple

\* C14: when the telemetry sink fails on a usage record, blocked, success or
\* failure, the handler returns what it had prepared before the sink was
\* called; a successful call stays a text payload.
C14_SinkFailureNotSurfaced ==
    variant = "full" /\ pc = "done" /\ cur.sink = "failed" =>
        /\ result = cur.pending
        /\ result.cause # "telemetry"
        /\ Len(usage) = 1
        /\ usage[1].status \in {"success", "truncated"} =>
              result.kind = "text" /\ ~result.isError
        /\ usage[1].status = "blocked" /\ usage[1].reason = "limits" =>
              result = BlockedResult
        /\ usage[1].status = "blocked" /\ usage[1].reason # "limits" =>
              result = ErrorResult(usage[1].reason)

\* the API answered, the sink rejected the success record, the caller got the
\* text payload
C14_Witness ==
    /\ variant = "full"
    /\ pc = "done"
    /\ cur.sink = "failed"
    /\ httpCalls = 1
    /\ usage[1].status = "success"
    /\ result = TextResult("api")

\* C15: the caller's result does not wait for the telemetry sink: once a usage
\* record has been handed to the sink and the sink has not answered, the
\* result has been returned all the same.
C15_ResponseDoesNotAwaitSink ==
    pc = "logging" => result # NoResult

\* C16: every invocation returns, and what it returns is one structured
\* result: a text payload, an approval artifact or an error payload; a
\* failure of the resolver, the builder, the HTTP call or the response
\* processing comes back as an error payload.
C16_EveryInvocationReturns ==
    /\ (pc \in {"fetching", "logging"}) ~> (pc = "done")
    /\ [](pc = "done" =>
            /\ result.kind \in {"text", "approval", "error", "blocked", "rejected"}
            /\ result.kind \in {"text", "approval"} \/ result.isError)
    /\ [](pc \in {"fetching", "logging"} => result = NoResult)
    /\ [][pc = "done" => pc' = "idle"]_vars

\* the HTTP call failed and the caller got an error payload
C16_Witness ==
    /\ pc = "done"
    /\ httpCalls = 1
    /\ result \in {ErrorResult("network"), ErrorResult("transport")}

-----------------------------------------------------------------------------
(* Concurrency *)

\* the invocation the event loop is running
Focus ==
    [pc |-> pc, cur |-> cur, req |-> req, httpCalls |-> httpCalls,
     usage |-> usage, result |-> result]

\* what an invocation that ran alone may return, given where its handler
\* first awaits
AloneResults(o) ==
    IF o.pc = "done" THEN {o.result}
    ELSE IF o.pc = "logging" THEN {o.cur.pending}
    ELSE IF variant = "full" THEN {TextResult("api"), ErrorResult("network")}
    ELSE {TextResult("api"), ErrorResult("api"), ErrorResult("transport")}

\* the request and the result of invocation p are those of the same call
\* handled with nothing else in flight
AsAlone(p) ==
    p.cur # NoInvocation =>
        LET o == Handle(p.cur.tool, p.cur.callerArgs)
        IN  /\ p.req = o.req
            /\ p.httpCalls = o.httpCalls
            /\ IF p.pc = "done" THEN p.result \in AloneResults(o)
               ELSE p.result = NoResult

\* the organization id, the credential and the argument values of a call
CallValues(args) ==
    LET ctx == ContextOf(args)
        own == Without(args, ContextKey)
    IN  {own[k] : k \in DOMAIN own}
        \cup {Str(ctx[k]) : k \in DOMAIN ctx \cap {"organization", "authorization"}}

\* value x is a header value of request r, bare or as a Bearer token
InHeaders(r, x) ==
    \E i \in 1..Len(r.headers) :
        x.t = "string" /\ r.headers[i][2] \in {x.v, BearerPrefix \o x.v}

\* value x is in the path, the query or the body of request r
InPayload(r, x) ==
    \/ \E i \in 1..Len(r.url) :
          /\ r.url[i].kind \in {"encoded", "raw"}
          /\ r.url[i].value = Stringify(x)
    \/ \E k \in DOMAIN r.query :
          \E i \in 1..Len(r.query[k]) : r.query[k][i] = Stringify(x)
    \/ \E k \in DOMAIN r.body.params : r.body.params[k] = x

\* value x is somewhere in request r: a header, the path, the query or the
\* body
Mentions(r, x) == r.sent /\ (InHeaders(r, x) \/ InPayload(r, x))

\* nothing that only the call of q carries is in the request of p
NothingFrom(p, q) ==
    p.cur # NoInvocation /\ q.cur # NoInvocation =>
        \A x \in CallValues(q.cur.callerArgs) \ CallValues(p.cur.callerArgs) :
            ~Mentions(p.req, x)

-----------------------------------------------------------------------------
(* Frame of an invocation *)

\* the argument object as the handler was called with it: the parsed
\* arguments on the full server, the call's arguments on the simple one
Received ==
    IF variant = "full" THEN Validate(cur.tool, cur.callerArgs).args
    ELSE cur.callerArgs

\* C18: once an invocation has returned, the argument object the handler was
\* called with (its context object included) has the keys and values it was
\* called with.
C18_ArgumentObjectUntouched ==
    pc = "done" /\ cur.validated => cur.args = Received

-----------------------------------------------------------------------------
(* The internal context and the outbound request *)

\* key names a path parameter, a query parameter or a body member of r
KeyInPayload(r, key) ==
    \/ \E i \in 1..Len(r.url) :
          r.url[i].kind \in {"encoded", "raw"} /\ r.url[i].of = key
    \/ key \in DOMAIN r.query
    \/ key \in DOMAIN r.body.params

\* the caller's own arguments: everything but the context
OwnArgs ==
    IF variant = "full" THEN Without(cur.callerArgs, ContextKey)
    ELSE Without(Without(cur.callerArgs, "organization"), "authorization")

OwnValues == {OwnArgs[k] : k \in DOMAIN OwnArgs}

\* the organization id the call's context carries
ContextOrganization ==
    IF variant = "full"
    THEN {Str(CallerContext[k]) : k \in DOMAIN CallerContext \cap {"organization"}}
    ELSE {cur.callerArgs[k] : k \in DOMAIN cur.callerArgs \cap {"organization"}}

\* the credential and the extra header values the call's context carries,
\* and the context object itself
ContextCredentials ==
    IF variant = "full"
    THEN {Str(CallerContext[k]) :
             k \in DOMAIN CallerContext \cap {"authorization", "apiKey"}}
         \cup {Str(Field(CallerContext, "headers")[i][2]) :
                  i \in 1..Len(Field(CallerContext, "headers"))}
         \cup {cur.callerArgs[k] : k \in DOMAIN cur.callerArgs \cap {ContextKey}}
    ELSE {cur.callerArgs[k] : k \in DOMAIN cur.callerArgs \cap {"authorization"}}

\* the argument values of the approval decision the call's context carries,
\* those the caller also passed as arguments left out
ContextApprovalValues ==
    IF /\ "approval" \in DOMAIN CallerContext
       /\ "modifiedArguments" \in DOMAIN CallerContext.approval
    THEN LET m == Without(CallerContext.approval.modifiedArguments, ContextKey)
         IN  {m[k] : k \in DOMAIN m} \ OwnValues
    ELSE {}

\* the argument snapshot of a returned ApprovalRequest holds neither the
\* context key nor anything the context carries
SnapshotClean ==
    pc = "done" /\ result.kind = "approval" =>
        LET snapshot == result.approvalRequest.arguments
            fields == result.approvalRequest.fields
            carried == ContextOrganization \cup ContextCredentials
        IN  /\ ContextKey \notin DOMAIN snapshot
            /\ \A k \in DOMAIN snapshot : snapshot[k] \notin carried
            /\ \A i \in 1..Len(fields) :
                  /\ fields[i].name # ContextKey
                  /\ fields[i].value \notin carried

\* C19 as stated: the context key and everything the context carries
\* (organization id, credential, extra headers, approval decision) are in no
\* path, query string or body, and in no ApprovalRequest snapshot.
C19_ContextOnlyInHeaders ==
    /\ req.sent =>
          /\ ~KeyInPayload(req, ContextKey)
          /\ \A x \in ContextOrganization \cup ContextCredentials
                       \cup ContextApprovalValues : ~InPayload(req, x)
    /\ SnapshotClean

\* C19, amended: the context key is in no path, query string or body and in
\* no ApprovalRequest snapshot, and the credential and the extra headers are
\* in headers only. The organization id of the context is outside the
\* headers in one case only: as the body's organization_id of
\* extractContractFromRaw when the call gives none. Argument values of the
\* approval decision are in the request only when the decision is an
\* approval of an approval-flagged tool, whose modifiedArguments then are
\* the arguments.
C19_ContextKeyAndCredentialOnlyInHeaders ==
    /\ req.sent =>
          /\ ~KeyInPayload(req, ContextKey)
          /\ \A x \in ContextCredentials : ~InPayload(req, x)
          /\ \A x \in ContextOrganization :
                InPayload(req, x) =>
                    /\ variant = "full"
                    /\ cur.tool.name = "extractContractFromRaw"
                    /\ ~Truthy(Get(OwnArgs, "organization_id"))
                    /\ req.body.params = Put(OwnArgs, "organization_id", x)
                    /\ DOMAIN req.query = {}
          /\ \A x \in ContextApprovalValues :
                InPayload(req, x) =>
                    /\ cur.tool.needsApproval # "never"
                    /\ CarriesApproval(CallerContext)
    /\ SnapshotClean

\* an extractContractFromRaw request whose context carries all four kinds of
\* content and whose body got the context's organization id
C19_Witness ==
    /\ pc = "fetching"
    /\ cur.tool.name = "extractContractFromRaw"
    /\ CallerContext = RichContext
    /\ req.body.params["organization_id"] = Str(OrgA)
    /\ InHeaders(req, Str(Jwt))
    /\ InHeaders(req, Str(JwtB))

-----------------------------------------------------------------------------
(* Order of the stages *)

\* the call has no resolvable organization id or no resolvable credential
Unresolvable ==
    IF variant = "full" THEN ResolutionError(CallerContext, env) # "none"
    ELSE ResolutionErrorSimple(cur.callerArgs) # "none"

\* the approval gate is evaluated before the limits: a held call has not had
\* its limits checked, whatever its arguments
GateBeforeLimits ==
    Active /\ cur.gate = "held" =>
        /\ cur.limits = NoLimits
        /\ Returned.kind = "approval"

\* C20: the credential resolver runs before the approval gate and the limit
\* check, so a call of a remote tool with no resolvable organization id or
\* credential returns an auth error, never an approval artifact or a
\* limit-blocked message; and the approval gate is evaluated before the limit
\* check.
C20_ResolverThenGateThenLimits ==
    /\ (/\ Active
        /\ cur.validated
        /\ Unresolvable
        /\ cur.tool.name # "getCurrentDateTime")
          => /\ Returned.kind = "error"
             /\ Returned.cause \in {"org", "auth"}
    /\ GateBeforeLimits

-----------------------------------------------------------------------------
(* Executor errors *)

\* the error of a non-2xx response and the error of a transport failure
NonOkAnswered == cur.response.kind = "response" /\ ~IsOk(cur.response.status)

TransportFailed == cur.response.kind = "failed"

\* C21: a non-2xx response yields an error that carries the status code and
\* the raw response body and is not labelled a network error; a transport
\* failure yields an error that carries no HTTP status.
C21_TwoErrorKinds ==
    Active /\ cur # NoInvocation =>
        /\ NonOkAnswered =>
              /\ cur.thrown.hasStatus
              /\ cur.thrown.status = cur.response.status
              /\ cur.thrown.body = ResponseBody
              /\ \A i \in 1..Len(cur.thrown.labels) :
                    cur.thrown.labels[i] # "Network error"
        /\ TransportFailed => ~cur.thrown.hasStatus

-----------------------------------------------------------------------------
(* Caller-supplied extra headers *)

\* no two headers of the request have the same name, letter case aside
OneHeaderPerName ==
    \A i, j \in 1..Len(req.headers) :
        LowerKey(req.headers[i][1]) = LowerKey(req.headers[j][1]) => i = j

\* C22: whatever the letter case of the keys of the caller's extra header map,
\* an extra header is added only if no header of that name is already set: the
\* computed Content-Type, organisation, Authorization and x-api-key headers
\* keep their computed values.
C22_ExtraHeadersNeverReplace ==
    variant = "full" /\ req.sent =>
        /\ HeaderGet(req.headers, "Content-Type") = AppJson
        /\ HeaderGet(req.headers, "organisation") = cur.orgId
        /\ HeaderGet(req.headers, "Authorization") = WithBearer(cur.authToken)
        /\ Field(CallerContext, "apiKey") # <<>> =>
              HeaderGet(req.headers, "x-api-key") = CallerContext.apiKey
        /\ OneHeaderPerName

-----------------------------------------------------------------------------
(* Usage telemetry *)

\* C23: in every usage record requestTokens is the ceiling of the serialized
\* inbound arguments' length over four, responseTokens is the ceiling of the
\* returned text's length over four, and neither is negative.
C23_TokensFromPayloadLength ==
    variant = "full" /\ usage # <<>> =>
        \A i \in 1..Len(usage) :
            /\ usage[i].requestTokens = CeilDiv4(ObjectLength(Received))
            /\ usage[i].responseTokens = CeilDiv4(cur.textLength)
            /\ usage[i].requestTokens >= 0
            /\ usage[i].responseTokens >= 0

-----------------------------------------------------------------------------
(* The response processor *)

\* this.maxResponseLength
MaxResponseLength == 50000

\* what processResponse appends to a response it cut
TruncationMarker == "\n\n[Response truncated due to length]"

\* how far below and above the ceiling the serialized lengths range
Slack == 30

\* the smaller of two numbers
Least(a, b) == IF a < b THEN a ELSE b

\* a text built from another one: the characters from..to-1 of its source,
\* followed by the parts appended to them
WholeText(length) == [from |-> 0, to |-> length, appended |-> <<>>]

\* text.length
Length(text) == (text.to - text.from) + TextLength(text.appended)

\* text.substring(0, end) of a text nothing was appended to
Substring(text, end) ==
    [text EXCEPT !.to = Least(text.from + end, text.to)]

\* text + more
Plus(text, more) == [text EXCEPT !.appended = @ \o <<more>>]

\* typeof responseData === 'string' ? responseData
\*                                   : JSON.stringify(responseData, null, 2)
Serialized(responseData) == WholeText(responseData.length)

\* a processor that cuts a response as long as the ceiling
ProcessResponseInclusive(responseData) ==
    LET response == Serialized(responseData)
    IN  IF Length(response) >= MaxResponseLength
        THEN Plus(Substring(response, MaxResponseLength), TruncationMarker)
        ELSE response

\* ResponseProcessor.processResponse
ProcessResponse(responseData) ==
    LET response == Serialized(responseData)
    IN  IF Length(response) > MaxResponseLength
        THEN Plus(Substring(response, MaxResponseLength), TruncationMarker)
        ELSE response

\* the results executeAPICall returns: the response text, or the value parsed
\* from it, each with the length of its serialization
RawResults ==
    [t : {"string", "json"},
     length : {0, 2 * MaxResponseLength}
                \cup ((MaxResponseLength - Slack)..(MaxResponseLength + Slack))]

\* a result handed to the processor
InitProcess ==
    /\ variant = "full"
    /\ env = NoEnv
    /\ limitsLoaded = FALSE
    /\ pc = "processing"
    /\ cur \in {[rawResult |-> rawResult] : rawResult \in RawResults}
    /\ req = NoReq
    /\ httpCalls = 0
    /\ usage = <<>>
    /\ result = NoResult
    /\ invocations = 0
    /\ gateStats = [approved |-> 0, executed |-> 0]
    /\ peer = NoPeer

\* processedResult = responseProcessor.processResponse(rawResult, tool.name)
Process ==
    /\ pc = "processing"
    /\ pc' = "processed"
    /\ result' = [kind |-> "processed", text |-> ProcessResponse(cur.rawResult)]
    /\ UNCHANGED <<peer, variant, env, limitsLoaded, cur, req, httpCalls, usage,
                   invocations, gateStats>>

NextProcess == Process

SpecProcess == InitProcess /\ [][NextProcess]_vars

\* the serialized length of the result given, and the cases of the ceiling
GivenLength == cur.rawResult.length
Processed == pc = "processed"

\* C24: for every result given to the response processor, with L its
\* serialized length and C the ceiling: when L <= C the output is the
\* serialized text unchanged; when L > C it is the first C characters of the
\* serialized text followed by the truncation marker; so the output is never
\* longer than C plus the marker, and the marker is there exactly when L > C.
C24_TruncatesAtCeiling ==
    Processed =>
        /\ GivenLength <= MaxResponseLength =>
               result.text = [from |-> 0, to |-> GivenLength, appended |-> <<>>]
        /\ GivenLength > MaxResponseLength =>
               result.text = [from |-> 0, to |-> MaxResponseLength,
                              appended |-> <<TruncationMarker>>]
        /\ Length(result.text) <= MaxResponseLength + Len(TruncationMarker)
        /\ (result.text.appended # <<>>) <=> (GivenLength > MaxResponseLength)

\* a result one character over the ceiling was cut and marked
C24_Witness ==
    /\ Processed
    /\ GivenLength = MaxResponseLength + 1
    /\ Length(result.text) = MaxResponseLength + Len(TruncationMarker)
    /\ result.text.appended = <<TruncationMarker>>

-----------------------------------------------------------------------------
(* The event of ingestRawMetricEvent *)

\* events that are no object, that hold a member left undefined, or that
\* hold a member named like the argument
OddEvents ==
    {Null, Num(17), Bool(FALSE), Arr(<<Str(Label)>>), Arr(<<>>),
     Obj([label |-> Undefined]),
     Obj([label |-> Undefined, customer_id |-> Str(CustomerId)]),
     Obj([event |-> Str(Label), timestamp |-> Str(IsoUtc)]),
     Obj([event |-> Obj([label |-> Str(Label)])]),
     Obj(EmptyObj)}

EventArgs == {[event |-> e] : e \in Events \cup OddEvents \cup {Str(IsoUtc)}}

\* ingestRawMetricEvent as a catalog may declare it: the compiled schema lets
\* through the events of the type the catalog names
EventTypes == {"object", "array", "string", "number", "boolean"}

EventTools ==
    {[IngestRawMetricEvent EXCEPT
        !.args = <<ArgDesc("event", type, "body", TRUE, Undefined)>>] :
        type \in EventTypes}

FullEventCalls ==
    {<<tool, call>> : tool \in EventTools,
                      call \in Calls(EventArgs, Identities)}

SimpleEventCalls ==
    {<<tool, call>> : tool \in EventTools,
                      call \in SimpleCalls(EventArgs, {Str(OrgA)}, {Str(Jwt)})}

InvokeEvent ==
    \E c \in IF variant = "full" THEN FullEventCalls ELSE SimpleEventCalls :
        Start(c[1], c[2])

NextEvent ==
    InvokeEvent \/ FetchResponds \/ FetchFails \/ LogUsageSettles \/ Release

\* the request builder over the events of ingestRawMetricEvent
SpecEvent == InitBody /\ [][NextEvent]_vars

\* the event argument of the current call, once its request was sent
EventGiven == Get(cur.callerArgs, "event")
IngestSent == req.sent /\ cur.tool.name = "ingestRawMetricEvent"

\* the members of an object that hold a defined value
OwnDefined(obj) == {k \in DOMAIN obj : obj[k].t # "undefined"}

\* C25: for ingestRawMetricEvent with an object-valued event, the outbound
\* body holds each of the event's own keys that has a defined value at its top
\* level and holds no `event` key wrapping the event; an event that is no
\* object is sent under `event` as it was given.
C25_EventFlattened ==
    IngestSent =>
        IF EventGiven.t = "object"
        THEN /\ OwnDefined(EventGiven.v) \subseteq DOMAIN Body
             /\ DOMAIN Body \subseteq OwnDefined(EventGiven.v)
             /\ "event" \in DOMAIN Body =>
                   /\ "event" \in OwnDefined(EventGiven.v)
                   /\ Body["event"] = EventGiven.v["event"]
        ELSE /\ req.body.present
             /\ DOMAIN Body = {"event"}
             /\ Body["event"] = EventGiven

\* an event of three defined members was sent as three members of the body
C25_Witness ==
    /\ IngestSent
    /\ EventGiven.t = "object"
    /\ OwnDefined(EventGiven.v) = {"timestamp", "data", "customer_id"}
    /\ DOMAIN Body = {"timestamp", "data", "customer_id"}
    /\ req.body.present

\* an event that is a list was sent under `event`
C25_ListSentWhole ==
    /\ IngestSent
    /\ EventGiven = Arr(<<Str(Label)>>)
    /\ Body = [event |-> Arr(<<Str(Label)>>)]

\* a member left undefined was not sent
C25_UndefinedLeftOut ==
    /\ IngestSent
    /\ EventGiven = Obj([label |-> Undefined, customer_id |-> Str(CustomerId)])
    /\ DOMAIN Body = {"customer_id"}

-----------------------------------------------------------------------------
(* Usage records *)

\* the current invocation of the full server has returned
HasReturned == variant = "full" /\ cur # NoInvocation /\ pc = "done"

\* C26: every invocation writes at most one usage record to the telemetry
\* sink; it writes exactly one when it passes the approval gate, whether it
\* then ends blocked by its limits, successful or failed, and none when it
\* returns an approval artifact.
C26_OneUsageRecordPerInvocation ==
    variant = "full" =>
        /\ Len(usage) <= 1
        /\ HasReturned /\ cur.gate = "passed" => Len(usage) = 1
        /\ HasReturned /\ result.kind = "approval" => usage = <<>>
        /\ HasReturned /\ cur.gate = "held" => result.kind = "approval"

\* a call that passed the gate and failed in transport wrote its one record,
\* though the sink rejected it
C26_Witness ==
    /\ HasReturned
    /\ cur.gate = "passed"
    /\ cur.response.kind = "failed"
    /\ cur.sink = "failed"
    /\ Len(usage) = 1

\* a call held by the gate wrote nothing
C26_HeldWroteNothing ==
    /\ HasReturned
    /\ result.kind = "approval"
    /\ usage = <<>>

\* a call blocked by its limits wrote its one record
C26_BlockedWroteOne ==
    /\ HasReturned
    /\ cur.pending = BlockedResult
    /\ Len(usage) = 1

\* the statuses of the records the current invocation wrote
Recorded(status) == \E i \in 1..Len(usage) : usage[i].status = status

\* the current invocation got a 2xx response
Answered2xx == cur.response.kind = "response" /\ IsOk(cur.response.status)

\* a record 'blocked' is written only when no outbound HTTP call was made
BlockedMeansNoHttpCall == Recorded("blocked") => httpCalls = 0

\* a record 'success' or 'truncated' is written only after a 2xx response
SuccessMeansAnswered2xx ==
    Recorded("success") \/ Recorded("truncated") => Answered2xx

\* C27: a usage record with status 'blocked' is written only for an
\* invocation that made no outbound HTTP call; an invocation whose HTTP call
\* was attempted, and returned non-2xx or failed in transport, is never
\* recorded 'blocked'; status 'success' or 'truncated' is recorded only after
\* a 2xx response.
C27_BlockedOnlyWithoutHttpCall ==
    variant = "full" /\ cur # NoInvocation =>
        /\ BlockedMeansNoHttpCall
        /\ SuccessMeansAnswered2xx

=============================================================================
